---- MODULE Spec2Model ----
(***************************************************************************)
(* A model of py-radix: the Patricia trie of radix.c (radix_lookup,        *)
(* radix_remove and the searches) under the Python binding of _radix.c     *)
(* (Radix.add, Radix.delete, the generation counter and the iterator).     *)
(*                                                                         *)
(* Addresses keep the widths of the program (4 bytes of 8 bits for IPv4,   *)
(* 16 for IPv6).  What is bounded is the set of inputs: the addresses that *)
(* the operations are called with differ only in a window of a few bits,   *)
(* and the prefix lengths lie around that window.  The IPv4 window         *)
(* straddles the boundary between byte 0 and byte 1, the IPv6 window lies  *)
(* at the very end of the address, where bitlen = maxbits.                 *)
(***************************************************************************)
EXTENDS Integers, Sequences, FiniteSets, TLC

(* ------------------------------ bounds -------------------------------- *)

\* cells of the node heap: PyMem_Malloc hands out a free cell
MaxNodes == 4
\* number of address bits that vary among the IPv4 inputs
AddrBits4 == 2
\* number of address bits that vary among the IPv6 inputs
AddrBits6 == 1
\* gen_id is an unsigned int: it counts modulo UIntMod (2^32 in the program)
UIntMod == 2
\* an int has IntBits bits (32 in the program); a long is wider
IntBits == 16

(* ------------------------- program constants -------------------------- *)

AF_INET == 2
AF_INET6 == 10
NULL == 0
ByteBits == 8

Families == {AF_INET, AF_INET6}

\* RADIX_MAXBITS: the stacks are arrays of RADIX_MAXBITS + 1 entries
RADIX_MAXBITS == 128

RADIX_MAXBITS_BY_PREFIX(prefix) == IF prefix.family = AF_INET THEN 32 ELSE 128

\* first bit of the window in which the input addresses differ
WinLo(family) == IF family = AF_INET THEN ByteBits - 1 ELSE 128 - AddrBits6
WinBits(family) == IF family = AF_INET THEN AddrBits4 ELSE AddrBits6

(* ------------------------- bytes and bit tests ------------------------- *)

Pow2(n) == 2 ^ n

\* a[i] of a C array held as a TLA+ sequence
Byte(a, i) == a[i + 1]

\* BIT_TEST(f, 0x80 >> j) for a byte f: non-zero iff bit j (from the MSB) is set
BIT_TEST(f, j) == (f \div Pow2(ByteBits - 1 - j)) % 2 = 1

\* BIT_TEST_SEARCH_BIT(addr, bit): addr[bit >> 3] & (0x80 >> (bit & 7))
BIT_TEST_SEARCH_BIT(addr, bit) ==
    BIT_TEST(Byte(addr, bit \div ByteBits), bit % ByteBits)

\* the byte a ^ b
XorByte(a, b) ==
    LET d(j) == IF BIT_TEST(a, j) # BIT_TEST(b, j) THEN Pow2(ByteBits - 1 - j) ELSE 0
    IN IF a = b THEN 0
       ELSE d(0) + d(1) + d(2) + d(3) + d(4) + d(5) + d(6) + d(7)

\* the byte f & ((~0) << (8 - j)): the top j bits of f
MaskByte(f, j) == (f \div Pow2(ByteBits - j)) * Pow2(ByteBits - j)

\* memcmp(addr, dest, n) == 0
MemEq(addr, dest, n) == \A i \in 0 .. n - 1 : Byte(addr, i) = Byte(dest, i)

MaskBug_comp_with_mask(addr, dest, mask) ==
    MemEq(addr, dest, mask \div ByteBits)

comp_with_mask(addr, dest, mask) ==
    /\ MemEq(addr, dest, mask \div ByteBits)
    /\ LET n == mask \div ByteBits
       IN \/ mask % ByteBits = 0
          \/ MaskByte(Byte(addr, n), mask % ByteBits)
               = MaskByte(Byte(dest, n), mask % ByteBits)

(* ------------------------------ prefixes ------------------------------- *)

NoPrefix == [family |-> 0, add |-> << >>, bitlen |-> 0]

\* New_Prefix2 with the address copied from dest; bitlen < 0 is the default
New_Prefix2(family, dest, bitlen) ==
    [family |-> family, add |-> dest,
     bitlen |-> IF bitlen >= 0 THEN bitlen ELSE IF family = AF_INET6 THEN 128 ELSE 32]

\* sanitise_mask(addr, masklen, maskbits): clear the bits from masklen on
sanitise_mask(addr, masklen, maskbits) ==
    LET i0 == masklen \div ByteBits
        j == masklen % ByteBits
        i1 == IF j # 0 THEN i0 + 1 ELSE i0
    IN [k \in 1 .. Len(addr) |->
          IF j # 0 /\ k - 1 = i0 THEN MaskByte(addr[k], j)
          ELSE IF k - 1 >= i1 /\ k - 1 < maskbits \div ByteBits THEN 0
          ELSE addr[k]]

\* what a prefix_t on the caller's stack holds before anything is written to
\* it, when it holds no usable family
Uninit == [family |-> 1, add |-> << >>, bitlen |-> 0]

\* the conversion of a long to the int parameter of prefix_from_blob_ex
LongToInt(x) == ((x + 2 ^ (IntBits - 1)) % 2 ^ IntBits) - 2 ^ (IntBits - 1)

\* prefix_pton_ex(ret, string, len) on the text of address addr with mask
\* length len (-1: none).  ret is the caller's prefix_t: NoPrefix for a NULL
\* pointer, else what the buffer holds.  A length out of range leaves by
\* "goto out", which returns ret.
prefix_pton_ex(ret, family, addr, len) ==
    LET maxb == IF family = AF_INET THEN 32 ELSE 128
    IN IF len = -1 THEN New_Prefix2(family, sanitise_mask(addr, maxb, maxb), maxb)
       ELSE IF len < 0 \/ len > maxb THEN ret
       ELSE New_Prefix2(family, sanitise_mask(addr, len, maxb), len)

\* prefix_from_blob_ex(ret, blob, len, prefixlen) on the packed bytes blob
prefix_from_blob_ex(ret, blob, prefixlen) ==
    IF Len(blob) \notin {4, 16} THEN NoPrefix
    ELSE LET family == IF Len(blob) = 4 THEN AF_INET ELSE AF_INET6
             maxprefix == IF Len(blob) = 4 THEN 32 ELSE 128
             l == IF prefixlen = -1 THEN maxprefix ELSE prefixlen
         IN IF l < 0 \/ l > maxprefix THEN NoPrefix
            ELSE New_Prefix2(family, blob, l)

\* args_to_prefix(prefix, addr, packed, packlen, prefixlen): arg.form is
\* "text" (network=) or "packed" (packed=), arg.masklen the long prefixlen.
\* The result is NoPrefix for NULL.
args_to_prefix(prefix, arg) ==
    LET p == IF arg.form = "text"
             THEN prefix_pton_ex(prefix, arg.family, arg.addr, arg.masklen)
             ELSE prefix_from_blob_ex(prefix, arg.addr, LongToInt(arg.masklen))
    IN IF p # NoPrefix /\ p.family # AF_INET /\ p.family # AF_INET6 THEN NoPrefix
       ELSE p

(* ------------------------------- inputs -------------------------------- *)

\* bit k (from the MSB) of the address whose window holds the number w
WinBit(family, w, k) ==
    IF k >= WinLo(family) /\ k < WinLo(family) + WinBits(family)
    THEN (w \div Pow2(WinLo(family) + WinBits(family) - 1 - k)) % 2
    ELSE 0

AddrOf(family, w) ==
    [i \in 1 .. (IF family = AF_INET THEN 4 ELSE 16) |->
        LET b(j) == WinBit(family, w, (i - 1) * ByteBits + j) * Pow2(ByteBits - 1 - j)
        IN b(0) + b(1) + b(2) + b(3) + b(4) + b(5) + b(6) + b(7)]

InputAddrs(family) == {AddrOf(family, w) : w \in 0 .. Pow2(WinBits(family)) - 1}

\* the mask lengths of the prefixes that are added and deleted
AddLens(family) ==
    (IF family = AF_INET THEN {0} ELSE {}) \cup (WinLo(family) .. WinLo(family) + WinBits(family))

\* the mask lengths that are searched for
QueryLens(family) ==
    AddLens(family) \cup {0, WinLo(family) + WinBits(family) + 1, RADIX_MAXBITS_BY_PREFIX([family |-> family])}

\* the forms in which the addresses are given: IPv4 as text, IPv6 as text or
\* as packed bytes (whose bits beyond the mask length are as the caller set them)
Forms(family) == IF family = AF_INET THEN {"text"} ELSE {"text", "packed"}

ArgsOf(family, lens) ==
    {[form |-> fm, family |-> family, addr |-> a, masklen |-> l] :
        fm \in Forms(family), a \in InputAddrs(family), l \in lens}

AddArgs == ArgsOf(AF_INET, AddLens(AF_INET)) \cup ArgsOf(AF_INET6, AddLens(AF_INET6))

QueryArgs == ArgsOf(AF_INET, QueryLens(AF_INET)) \cup ArgsOf(AF_INET6, QueryLens(AF_INET6))

\* the arguments of the specification that records each call's result
CallArgs == ArgsOf(AF_INET, AddLens(AF_INET))

(* ------------------------------ the heap ------------------------------- *)

\* The addresses of the heap.  PyMem_Malloc returns the address of some free
\* block, which one is the allocator's choice; the model resolves the choice
\* by a placement hint, so that heaps that differ only in the addresses of
\* their nodes are one state.  An address is only ever compared and
\* dereferenced.  At most MaxNodes blocks are allocated at a time.
CellsOf(family) == (WinBits(family) + 2) * Pow2(WinBits(family))

NodeIds == 1 .. CellsOf(AF_INET) + CellsOf(AF_INET6)

\* the placement hint for a node of the given family and bit under addr
CellHint(family, bit, addr) ==
    LET lo == WinLo(family)
        nb == WinBits(family)
        rank == IF bit < lo THEN 0 ELSE IF bit > lo + nb THEN nb + 1 ELSE bit - lo + 1
        v(k) == IF lo + k < bit /\ BIT_TEST_SEARCH_BIT(addr, lo + k) THEN Pow2(nb - 1 - k) ELSE 0
        RECURSIVE sum(_)
        sum(k) == IF k < 0 THEN 0 ELSE v(k) + sum(k - 1)
    IN (IF family = AF_INET THEN 0 ELSE CellsOf(AF_INET))
         + rank * Pow2(nb) + sum(nb - 1) + 1

\* a cell that is not allocated
FreeCell ==
    [alloc |-> FALSE, bit |-> 0, prefix |-> NoPrefix,
     parent |-> NULL, l |-> NULL, r |-> NULL, data |-> NULL]

\* PyMem_Malloc(sizeof(radix_node_t)): a free cell, NULL when memory is exhausted
Malloc(heap, hint) ==
    IF Cardinality({n \in NodeIds : heap[n].alloc}) >= MaxNodes THEN NULL
    ELSE IF ~heap[hint].alloc THEN hint
    ELSE CHOOSE n \in NodeIds : ~heap[n].alloc /\ \A m \in NodeIds : ~heap[m].alloc => n <= m

\* PyMem_Free(node)
Free(heap, n) == [heap EXCEPT ![n] = FreeCell]

\* the node as radix_lookup initialises it after memset
NewNode(bit, prefix) ==
    [alloc |-> TRUE, bit |-> bit, prefix |-> prefix,
     parent |-> NULL, l |-> NULL, r |-> NULL, data |-> NULL]

\* New_Radix
New_Radix == [head_ipv4 |-> NULL, head_ipv6 |-> NULL, num_active_node |-> 0]

RADIX_HEAD_BY_PREFIX(rt, prefix) ==
    IF prefix.family = AF_INET THEN rt.head_ipv4 ELSE rt.head_ipv6

\* (a variant that keeps one head for both families)
OneHead_SetHead(rt, prefix, x) == [rt EXCEPT !.head_ipv4 = x]

\* *RADIX_PHEAD_BY_PREFIX(radix, prefix) = x
SetHead(rt, prefix, x) ==
    IF prefix.family = AF_INET THEN [rt EXCEPT !.head_ipv4 = x]
    ELSE [rt EXCEPT !.head_ipv6 = x]

\* the prefix a node retains: Ref_Prefix shares or copies family, add, bitlen
Ref_Prefix(prefix) == [family |-> prefix.family, add |-> prefix.add, bitlen |-> prefix.bitlen]

(* ---------------------------- radix_lookup ----------------------------- *)

RECURSIVE LookupDescend(_, _, _, _, _)
\* the descent of radix_lookup: the node at which the while loop stops
LookupDescend(heap, node, addr, bitlen, maxbits) ==
    IF heap[node].bit < bitlen \/ heap[node].prefix = NoPrefix
    THEN IF heap[node].bit < maxbits /\ BIT_TEST_SEARCH_BIT(addr, heap[node].bit)
         THEN IF heap[node].r = NULL THEN node
              ELSE LookupDescend(heap, heap[node].r, addr, bitlen, maxbits)
         ELSE IF heap[node].l = NULL THEN node
              ELSE LookupDescend(heap, heap[node].l, addr, bitlen, maxbits)
    ELSE node

\* the inner loop: the first j with BIT_TEST(r, 0x80 >> j), 8 when there is none
FirstSetBit(r) ==
    IF \E j \in 0 .. ByteBits - 1 : BIT_TEST(r, j)
    THEN CHOOSE j \in 0 .. ByteBits - 1 :
            BIT_TEST(r, j) /\ \A k \in 0 .. j - 1 : ~BIT_TEST(r, k)
    ELSE ByteBits

RECURSIVE DifferLoop(_, _, _, _, _)
\* the loop "find the first bit different" from byte i on
DifferLoop(addr, test_addr, check_bit, i, differ_bit) ==
    IF i * ByteBits < check_bit
    THEN LET r == XorByte(Byte(addr, i), Byte(test_addr, i))
         IN IF r = 0
            THEN DifferLoop(addr, test_addr, check_bit, i + 1, (i + 1) * ByteBits)
            ELSE i * ByteBits + FirstSetBit(r)
    ELSE differ_bit

NoCap_DifferBit(addr, test_addr, check_bit) ==
    DifferLoop(addr, test_addr, check_bit, 0, 0)

\* differ_bit as radix_lookup computes it, capped at check_bit
DifferBit(addr, test_addr, check_bit) ==
    LET d == DifferLoop(addr, test_addr, check_bit, 0, 0)
    IN IF d > check_bit THEN check_bit ELSE d

RECURSIVE WalkUp(_, _, _)
NoWalk_WalkUp(heap, node, differ_bit) == node

\* the loop that climbs while the parent's bit is >= differ_bit
WalkUp(heap, node, differ_bit) ==
    LET parent == heap[node].parent
    IN IF parent # NULL /\ heap[parent].bit >= differ_bit
       THEN WalkUp(heap, parent, differ_bit)
       ELSE node

\* (a variant that always fills the left slot of the parent)
WrongSide_ReplaceInParent(M, prefix, node, x) ==
    LET parent == M.heap[node].parent
    IN IF parent = NULL THEN [M EXCEPT !.rt = SetHead(M.rt, prefix, x)]
       ELSE [M EXCEPT !.heap[parent].l = x]

\* put x in the slot that node occupies under its parent (or at the head)
ReplaceInParent(M, prefix, node, x) ==
    LET parent == M.heap[node].parent
    IN IF parent = NULL THEN [M EXCEPT !.rt = SetHead(M.rt, prefix, x)]
       ELSE IF M.heap[parent].r = node THEN [M EXCEPT !.heap[parent].r = x]
       ELSE [M EXCEPT !.heap[parent].l = x]

\* the result of a call that fails on a NULL from PyMem_Malloc
LookupFail(M) == [M |-> M, node |-> NULL, fault |-> FALSE]

\* radix_lookup(radix, prefix) on the memory M = [heap, rt]; fail is the set
\* of allocation sites ("node", "glue") at which PyMem_Malloc returns NULL.
\* fault: the call read through a NULL pointer.
radix_lookup(M, prefix, fail) ==
    LET maxbits == RADIX_MAXBITS_BY_PREFIX(prefix)
        head == RADIX_HEAD_BY_PREFIX(M.rt, prefix)
        addr == prefix.add
        bitlen == prefix.bitlen
    IN
    IF head = NULL THEN
        LET node == IF "node" \in fail THEN NULL
                    ELSE Malloc(M.heap, CellHint(prefix.family, bitlen, addr))
        IN IF node = NULL THEN LookupFail(M)
           ELSE [M |-> [heap |-> [M.heap EXCEPT ![node] = NewNode(bitlen, Ref_Prefix(prefix))],
                        rt |-> [SetHead(M.rt, prefix, node) EXCEPT
                                   !.num_active_node = M.rt.num_active_node + 1]],
                 node |-> node, fault |-> FALSE]
    ELSE
    LET landing == LookupDescend(M.heap, head, addr, bitlen, maxbits)
    IN
    IF M.heap[landing].prefix = NoPrefix THEN [M |-> M, node |-> NULL, fault |-> TRUE]
    ELSE
    LET test_addr == M.heap[landing].prefix.add
        check_bit == IF M.heap[landing].bit < bitlen THEN M.heap[landing].bit ELSE bitlen
        differ_bit == DifferBit(addr, test_addr, check_bit)
        node == WalkUp(M.heap, landing, differ_bit)
    IN
    IF differ_bit = bitlen /\ M.heap[node].bit = bitlen THEN
        [M |-> IF M.heap[node].prefix = NoPrefix
               THEN [M EXCEPT !.heap[node].prefix = Ref_Prefix(prefix)]
               ELSE M,
         node |-> node, fault |-> FALSE]
    ELSE
    LET new_node == IF "node" \in fail THEN NULL
                    ELSE Malloc(M.heap, CellHint(prefix.family, bitlen, addr))
    IN
    IF new_node = NULL THEN LookupFail(M)
    ELSE
    LET M1 == [heap |-> [M.heap EXCEPT ![new_node] = NewNode(bitlen, Ref_Prefix(prefix))],
               rt |-> [M.rt EXCEPT !.num_active_node = M.rt.num_active_node + 1]]
    IN
    IF M.heap[node].bit = differ_bit THEN
        [M |-> IF M.heap[node].bit < maxbits /\ BIT_TEST_SEARCH_BIT(addr, M.heap[node].bit)
               THEN [M1 EXCEPT !.heap[new_node].parent = node, !.heap[node].r = new_node]
               ELSE [M1 EXCEPT !.heap[new_node].parent = node, !.heap[node].l = new_node],
         node |-> new_node, fault |-> FALSE]
    ELSE IF bitlen = differ_bit THEN
        LET M2 == IF bitlen < maxbits /\ BIT_TEST_SEARCH_BIT(test_addr, bitlen)
                  THEN [M1 EXCEPT !.heap[new_node].r = node]
                  ELSE [M1 EXCEPT !.heap[new_node].l = node]
            M3 == [M2 EXCEPT !.heap[new_node].parent = M.heap[node].parent]
            M4 == ReplaceInParent(M3, prefix, node, new_node)
        IN [M |-> [M4 EXCEPT !.heap[node].parent = new_node],
            node |-> new_node, fault |-> FALSE]
    ELSE
        LET glue == IF "glue" \in fail THEN NULL
                    ELSE Malloc(M1.heap, CellHint(prefix.family, differ_bit, addr))
        IN
        IF glue = NULL THEN [M |-> M1, node |-> NULL, fault |-> FALSE]
        ELSE
        LET G == [NewNode(differ_bit, NoPrefix) EXCEPT !.parent = M.heap[node].parent]
            M2 == [M1 EXCEPT !.heap[glue] =
                      IF differ_bit < maxbits /\ BIT_TEST_SEARCH_BIT(addr, differ_bit)
                      THEN [G EXCEPT !.r = new_node, !.l = node]
                      ELSE [G EXCEPT !.r = node, !.l = new_node],
                   !.rt.num_active_node = M1.rt.num_active_node + 1]
            M3 == [M2 EXCEPT !.heap[new_node].parent = glue]
            M4 == ReplaceInParent(M3, prefix, node, glue)
        IN [M |-> [M4 EXCEPT !.heap[node].parent = glue],
            node |-> new_node, fault |-> FALSE]

(* ---------------------------- radix_remove ----------------------------- *)

\* (a variant that leaves a glue parent in place)
KeepGlue_RemoveLeaf(M, node, prefix) ==
    LET parent == M.heap[node].parent
        M1 == [heap |-> Free(M.heap, node),
               rt |-> [M.rt EXCEPT !.num_active_node = M.rt.num_active_node - 1]]
    IN IF parent = NULL THEN [M |-> [M1 EXCEPT !.rt = SetHead(M1.rt, prefix, NULL)], fault |-> FALSE]
       ELSE IF M.heap[parent].r = node THEN [M |-> [M1 EXCEPT !.heap[parent].r = NULL], fault |-> FALSE]
       ELSE [M |-> [M1 EXCEPT !.heap[parent].l = NULL], fault |-> FALSE]

\* the leaf case after the leaf is freed: unlink it and, when the parent is
\* a glue node, splice the parent out
RemoveLeaf(M, node, prefix) ==
    LET parent == M.heap[node].parent
        M1 == [heap |-> Free(M.heap, node),
               rt |-> [M.rt EXCEPT !.num_active_node = M.rt.num_active_node - 1]]
    IN
    IF parent = NULL THEN [M |-> [M1 EXCEPT !.rt = SetHead(M1.rt, prefix, NULL)], fault |-> FALSE]
    ELSE
    LET wasRight == M.heap[parent].r = node
        child == IF wasRight THEN M.heap[parent].l ELSE M.heap[parent].r
        M2 == IF wasRight THEN [M1 EXCEPT !.heap[parent].r = NULL]
              ELSE [M1 EXCEPT !.heap[parent].l = NULL]
    IN
    IF M.heap[parent].prefix # NoPrefix THEN [M |-> M2, fault |-> FALSE]
    ELSE IF child = NULL THEN [M |-> M2, fault |-> TRUE]
    ELSE
    LET M3 == ReplaceInParent(M2, prefix, parent, child)
        M4 == [M3 EXCEPT !.heap[child].parent = M.heap[parent].parent]
    IN [M |-> [heap |-> Free(M4.heap, parent),
               rt |-> [M4.rt EXCEPT !.num_active_node = M4.rt.num_active_node - 1]],
        fault |-> FALSE]

\* (a variant that forgets to count the freed node)
NoCount_RemoveOneChild(M, node, prefix) ==
    LET child == IF M.heap[node].r # NULL THEN M.heap[node].r ELSE M.heap[node].l
        parent == M.heap[node].parent
        M1 == [M EXCEPT !.heap[child].parent = parent]
        M2 == [M1 EXCEPT !.heap = Free(M1.heap, node)]
    IN
    IF parent = NULL THEN [M |-> [M2 EXCEPT !.rt = SetHead(M2.rt, prefix, child)], fault |-> FALSE]
    ELSE IF M.heap[parent].r = node THEN [M |-> [M2 EXCEPT !.heap[parent].r = child], fault |-> FALSE]
    ELSE [M |-> [M2 EXCEPT !.heap[parent].l = child], fault |-> FALSE]

\* the case of exactly one child: the child takes the node's slot
RemoveOneChild(M, node, prefix) ==
    LET child == IF M.heap[node].r # NULL THEN M.heap[node].r ELSE M.heap[node].l
        parent == M.heap[node].parent
        M1 == [M EXCEPT !.heap[child].parent = parent]
        M2 == [heap |-> Free(M1.heap, node),
               rt |-> [M1.rt EXCEPT !.num_active_node = M1.rt.num_active_node - 1]]
    IN
    IF parent = NULL THEN [M |-> [M2 EXCEPT !.rt = SetHead(M2.rt, prefix, child)], fault |-> FALSE]
    ELSE IF M.heap[parent].r = node THEN [M |-> [M2 EXCEPT !.heap[parent].r = child], fault |-> FALSE]
    ELSE [M |-> [M2 EXCEPT !.heap[parent].l = child], fault |-> FALSE]

\* (a variant whose two-children case leaves the node's data in place)
KeepData_radix_remove(M, node) ==
    LET prefix == M.heap[node].prefix
    IN
    IF M.heap[node].r # NULL /\ M.heap[node].l # NULL THEN
        [M |-> [M EXCEPT !.heap[node].prefix = NoPrefix], fault |-> FALSE]
    ELSE IF M.heap[node].r = NULL /\ M.heap[node].l = NULL THEN RemoveLeaf(M, node, prefix)
    ELSE RemoveOneChild(M, node, prefix)

\* radix_remove(radix, node) for a node that has a prefix
radix_remove(M, node) ==
    LET prefix == M.heap[node].prefix
    IN
    IF M.heap[node].r # NULL /\ M.heap[node].l # NULL THEN
        [M |-> [M EXCEPT !.heap[node].prefix = NoPrefix, !.heap[node].data = NULL],
         fault |-> FALSE]
    ELSE IF M.heap[node].r = NULL /\ M.heap[node].l = NULL THEN RemoveLeaf(M, node, prefix)
    ELSE RemoveOneChild(M, node, prefix)

(* ------------------------------ searches ------------------------------- *)

RECURSIVE SearchForeach(_, _, _, _)
\* RADIX_SEARCH_FOREACH / RADIX_SEARCH_FOREACH_INCLUSIVE without a body: the
\* node at which the loop ends (NULL, or the first node whose bit is not
\* below, resp. not at or below, the prefix length)
SearchForeach(heap, node, prefix, inclusive) ==
    IF node # NULL /\ (IF inclusive THEN heap[node].bit <= prefix.bitlen
                       ELSE heap[node].bit < prefix.bitlen)
    THEN SearchForeach(heap,
            IF BIT_TEST_SEARCH_BIT(prefix.add, heap[node].bit) THEN heap[node].r ELSE heap[node].l,
            prefix, inclusive)
    ELSE node

NoCompare_radix_search_exact(M, prefix) ==
    LET head == RADIX_HEAD_BY_PREFIX(M.rt, prefix)
        node == SearchForeach(M.heap, head, prefix, FALSE)
    IN IF head = NULL THEN NULL
       ELSE IF node = NULL \/ M.heap[node].bit > prefix.bitlen \/ M.heap[node].prefix = NoPrefix
       THEN NULL
       ELSE node

radix_search_exact(M, prefix) ==
    LET head == RADIX_HEAD_BY_PREFIX(M.rt, prefix)
        bitlen == prefix.bitlen
        node == SearchForeach(M.heap, head, prefix, FALSE)
    IN IF head = NULL THEN NULL
       ELSE IF node = NULL \/ M.heap[node].bit > bitlen \/ M.heap[node].prefix = NoPrefix
       THEN NULL
       ELSE IF comp_with_mask(M.heap[node].prefix.add, prefix.add, bitlen) THEN node
       ELSE NULL

\* the address bit that the inclusive walks test at a node.  At a node whose
\* bit is maxbits the macro reads the byte behind the address, which the
\* prefix on the caller's stack never initialised: junk is what it finds.
SearchBit(addr, bit, junk) ==
    IF bit \div ByteBits < Len(addr) THEN BIT_TEST_SEARCH_BIT(addr, bit) ELSE junk

RECURSIVE InclusiveWalk(_, _, _, _, _, _)
RECURSIVE AnyBit_InclusiveWalk(_, _, _, _, _, _)
\* (a variant that also stacks the node at the prefix length when inclusive
\* is 0)
AnyBit_InclusiveWalk(heap, node, prefix, inclusive, junk, stack) ==
    IF node # NULL /\ heap[node].bit <= prefix.bitlen
    THEN AnyBit_InclusiveWalk(heap,
            IF SearchBit(prefix.add, heap[node].bit, junk) THEN heap[node].r ELSE heap[node].l,
            prefix, inclusive, junk,
            IF heap[node].prefix # NoPrefix THEN Append(stack, node) ELSE stack)
    ELSE stack

\* RADIX_SEARCH_FOREACH_INCLUSIVE with the body of search_best2/search_worst2:
\* the stack of the nodes pushed, bottom first
InclusiveWalk(heap, node, prefix, inclusive, junk, stack) ==
    IF node # NULL /\ heap[node].bit <= prefix.bitlen
    THEN InclusiveWalk(heap,
            IF SearchBit(prefix.add, heap[node].bit, junk) THEN heap[node].r ELSE heap[node].l,
            prefix, inclusive, junk,
            IF heap[node].prefix # NoPrefix /\ (inclusive \/ heap[node].bit # prefix.bitlen)
            THEN Append(stack, node) ELSE stack)
    ELSE stack

\* does the node on the stack match the prefix over the node's own length
StackMatch(heap, node, prefix) ==
    comp_with_mask(heap[node].prefix.add, prefix.add, heap[node].prefix.bitlen)

FromBottom_radix_search_best2(M, prefix, inclusive, junk) ==
    LET head == RADIX_HEAD_BY_PREFIX(M.rt, prefix)
        stack == InclusiveWalk(M.heap, head, prefix, inclusive, junk, << >>)
        hits == {i \in 1 .. Len(stack) : StackMatch(M.heap, stack[i], prefix)}
    IN IF head = NULL \/ hits = {} THEN NULL
       ELSE stack[CHOOSE i \in hits : \A k \in hits : i <= k]

\* radix_search_best2: the stack is scanned from the top
radix_search_best2(M, prefix, inclusive, junk) ==
    LET head == RADIX_HEAD_BY_PREFIX(M.rt, prefix)
        stack == InclusiveWalk(M.heap, head, prefix, inclusive, junk, << >>)
        hits == {i \in 1 .. Len(stack) :
                    /\ StackMatch(M.heap, stack[i], prefix)
                    /\ M.heap[stack[i]].prefix.bitlen <= prefix.bitlen}
    IN IF head = NULL \/ hits = {} THEN NULL
       ELSE stack[CHOOSE i \in hits : \A k \in hits : i >= k]

\* (a variant that leaves out the prefix of the query's own length)
Exclusive_radix_search_best(M, prefix, junk) == radix_search_best2(M, prefix, FALSE, junk)

radix_search_best(M, prefix, junk) == radix_search_best2(M, prefix, TRUE, junk)

FromTop_radix_search_worst2(M, prefix, inclusive, junk) ==
    LET head == RADIX_HEAD_BY_PREFIX(M.rt, prefix)
        stack == InclusiveWalk(M.heap, head, prefix, inclusive, junk, << >>)
        hits == {i \in 1 .. Len(stack) : StackMatch(M.heap, stack[i], prefix)}
    IN IF head = NULL \/ hits = {} THEN NULL
       ELSE stack[CHOOSE i \in hits : \A k \in hits : i >= k]

\* radix_search_worst2: the stack is scanned from the bottom
radix_search_worst2(M, prefix, inclusive, junk) ==
    LET head == RADIX_HEAD_BY_PREFIX(M.rt, prefix)
        stack == InclusiveWalk(M.heap, head, prefix, inclusive, junk, << >>)
        hits == {i \in 1 .. Len(stack) : StackMatch(M.heap, stack[i], prefix)}
    IN IF head = NULL \/ hits = {} THEN NULL
       ELSE stack[CHOOSE i \in hits : \A k \in hits : i <= k]

radix_search_worst(M, prefix, junk) == radix_search_worst2(M, prefix, TRUE, junk)

\* the callback of a walk: on the nodes of abortOn it returns a non-zero
\* value of its own for each node, else 0 (add_node_to_list always returns 0)
Callback(node, abortOn) == IF node \in abortOn THEN node ELSE 0

RECURSIVE CoveringWalk(_, _, _, _)
RECURSIVE NoBreak_CoveringWalk(_, _, _, _)
\* (a variant that goes on to the parent after a non-zero result)
NoBreak_CoveringWalk(heap, node, abortOn, calls) ==
    IF heap[node].prefix = NoPrefix
    THEN IF heap[node].parent # NULL
         THEN NoBreak_CoveringWalk(heap, heap[node].parent, abortOn, calls)
         ELSE [rc |-> 0, calls |-> calls]
    ELSE IF heap[node].parent # NULL
         THEN NoBreak_CoveringWalk(heap, heap[node].parent, abortOn, Append(calls, node))
         ELSE [rc |-> Callback(node, abortOn), calls |-> Append(calls, node)]

\* the do-while of radix_search_covering from node upwards; calls is the
\* sequence of nodes the callback has been invoked on
CoveringWalk(heap, node, abortOn, calls) ==
    IF heap[node].prefix = NoPrefix
    THEN IF heap[node].parent # NULL
         THEN CoveringWalk(heap, heap[node].parent, abortOn, calls)
         ELSE [rc |-> 0, calls |-> calls]
    ELSE LET rc == Callback(node, abortOn)
         IN IF rc # 0 THEN [rc |-> rc, calls |-> Append(calls, node)]
            ELSE IF heap[node].parent # NULL
            THEN CoveringWalk(heap, heap[node].parent, abortOn, Append(calls, node))
            ELSE [rc |-> 0, calls |-> Append(calls, node)]

BestOnly_radix_search_covering(M, prefix, abortOn, junk) ==
    LET node == radix_search_best(M, prefix, junk)
    IN IF node = NULL THEN [rc |-> 0, calls |-> << >>]
       ELSE [rc |-> Callback(node, abortOn), calls |-> <<node>>]

radix_search_covering(M, prefix, abortOn, junk) ==
    LET node == radix_search_best(M, prefix, junk)
    IN IF node = NULL THEN [rc |-> 0, calls |-> << >>]
       ELSE CoveringWalk(M.heap, node, abortOn, << >>)

RADIX_STATE_LEFT == 0
RADIX_STATE_RIGHT == 1
RADIX_STATE_SELF == 2

RADIX_MIN(a, b) == IF a < b THEN a ELSE b

NoMin_COMP_NODE_PREFIX(heap, node, prefix) ==
    comp_with_mask(heap[node].prefix.add, prefix.add, heap[node].prefix.bitlen)

COMP_NODE_PREFIX(heap, node, prefix) ==
    comp_with_mask(heap[node].prefix.add, prefix.add,
                   RADIX_MIN(heap[node].prefix.bitlen, prefix.bitlen))

RECURSIVE CoveredDescend(_, _, _, _, _)
\* the first loop of radix_search_covered: where it ends (node), the last
\* node visited (prev_node) and the last node with a prefix (prefixed_node)
CoveredDescend(heap, node, prefix, prev_node, prefixed_node) ==
    IF node # NULL /\ heap[node].bit <= prefix.bitlen
    THEN IF heap[node].bit = prefix.bitlen
         THEN [node |-> node, prev_node |-> node, prefixed_node |-> prefixed_node]
         ELSE CoveredDescend(heap,
                 IF BIT_TEST_SEARCH_BIT(prefix.add, heap[node].bit)
                 THEN heap[node].r ELSE heap[node].l,
                 prefix, node,
                 IF heap[node].prefix # NoPrefix THEN node ELSE prefixed_node)
    ELSE [node |-> node, prev_node |-> prev_node, prefixed_node |-> prefixed_node]

RECURSIVE CoveredLoop(_, _, _, _, _, _)
\* the while (stackpos >= 0) loop; stack[Len(stack)] is stack[stackpos]
CoveredLoop(heap, prefix, inclusive, abortOn, stack, calls) ==
    IF stack = << >> THEN [rc |-> 0, calls |-> calls]
    ELSE
    LET pos == Len(stack)
        pst == stack[pos]
    IN
    IF pst.state # RADIX_STATE_SELF THEN
        LET node == IF pst.state = RADIX_STATE_LEFT THEN heap[pst.node].l ELSE heap[pst.node].r
            st1 == [stack EXCEPT ![pos].state =
                        IF pst.state = RADIX_STATE_LEFT THEN RADIX_STATE_RIGHT ELSE RADIX_STATE_SELF]
        IN IF node = NULL THEN CoveredLoop(heap, prefix, inclusive, abortOn, st1, calls)
           ELSE IF ~pst.checked /\ heap[node].prefix # NoPrefix /\ ~COMP_NODE_PREFIX(heap, node, prefix)
           THEN CoveredLoop(heap, prefix, inclusive, abortOn, st1, calls)
           ELSE CoveredLoop(heap, prefix, inclusive, abortOn,
                    Append(st1, [node |-> node, state |-> RADIX_STATE_LEFT,
                                 checked |-> pst.checked \/ heap[node].prefix # NoPrefix]),
                    calls)
    ELSE
        LET emit == /\ \/ pos > 1
                       \/ IF inclusive THEN heap[pst.node].bit >= prefix.bitlen
                          ELSE heap[pst.node].bit > prefix.bitlen
                    /\ heap[pst.node].prefix # NoPrefix
            rc == IF emit THEN Callback(pst.node, abortOn) ELSE 0
            calls1 == IF emit THEN Append(calls, pst.node) ELSE calls
        IN IF rc # 0 THEN [rc |-> rc, calls |-> calls1]
           ELSE CoveredLoop(heap, prefix, inclusive, abortOn, SubSeq(stack, 1, pos - 1), calls1)

radix_search_covered(M, prefix, abortOn, inclusive) ==
    LET d == CoveredDescend(M.heap, RADIX_HEAD_BY_PREFIX(M.rt, prefix), prefix, NULL, NULL)
        node == IF d.node = NULL THEN d.prev_node ELSE d.node
        prefixed_node == IF d.node # NULL /\ M.heap[d.node].prefix # NoPrefix
                         THEN d.node ELSE d.prefixed_node
    IN IF node = NULL THEN [rc |-> 0, calls |-> << >>]
       ELSE IF prefixed_node # NULL /\ ~COMP_NODE_PREFIX(M.heap, prefixed_node, prefix)
       THEN [rc |-> 0, calls |-> << >>]
       ELSE CoveredLoop(M.heap, prefix, inclusive, abortOn,
                <<[node |-> node, state |-> RADIX_STATE_LEFT,
                   checked |-> node = prefixed_node /\ M.heap[node].bit >= prefix.bitlen]>>,
                << >>)

\* (a variant whose covered phase is inclusive)
Inclusive_radix_search_intersect(M, prefix, abortOn, junk) ==
    LET c == radix_search_covering(M, prefix, abortOn, junk)
    IN IF c.rc # 0 THEN c
       ELSE LET d == radix_search_covered(M, prefix, abortOn, TRUE)
            IN [rc |-> d.rc, calls |-> c.calls \o d.calls]

\* radix_search_intersect
radix_search_intersect(M, prefix, abortOn, junk) ==
    LET c == radix_search_covering(M, prefix, abortOn, junk)
    IN IF c.rc # 0 THEN c
       ELSE LET d == radix_search_covered(M, prefix, abortOn, FALSE)
            IN [rc |-> d.rc, calls |-> c.calls \o d.calls]

RECURSIVE Subtree(_, _)
\* the nodes reachable from n through l and r
Subtree(h, n) == IF n = NULL THEN {} ELSE {n} \cup Subtree(h, h[n].l) \cup Subtree(h, h[n].r)

(* ------------------------------- state --------------------------------- *)

VARIABLES
    heap,     \* the radix_node_t cells
    rt,       \* the radix_tree_t of the Radix object
    gen_id,   \* RadixObject.gen_id
    fault,    \* a call has read through a NULL pointer
    iter,     \* the RadixIter object
    added,    \* history: the prefixes added and not deleted since
    last,     \* history: the last call and what it returned
    mods,     \* history: the adds and deletes completed since iter was created
    it_last,  \* history: what the last next(iter) returned, mods at that call,
              \* the read-only call that preceded it (after), and whether
              \* the next before it failed with the modification error
    pmem,     \* the prefix_t objects: which one each node's prefix pointer
              \* holds, and the ref_count of each
    nodeobjs  \* the RadixNodeObject objects: which one each node's data
              \* pointer holds, and the rn of each

vars == <<heap, rt, gen_id, fault, iter, added, last, mods, it_last, pmem, nodeobjs>>

itvars == <<iter, mods, it_last>>

Mem == [heap |-> heap, rt |-> rt]

\* the prefix as a value: family, length and the first bitlen bits
Canon(prefix) ==
    [family |-> prefix.family, bitlen |-> prefix.bitlen,
     add |-> [k \in 1 .. Len(prefix.add) |->
                IF k * ByteBits <= prefix.bitlen THEN prefix.add[k]
                ELSE IF (k - 1) * ByteBits >= prefix.bitlen THEN 0
                ELSE MaskByte(prefix.add[k], prefix.bitlen - (k - 1) * ByteBits)]]

\* no iterator has been created
NoIter == [live |-> FALSE, sp |-> << >>, rn |-> NULL, af |-> AF_INET, gen_id |-> 0]

NoNext == [kind |-> "none", node |-> NULL, mods |-> 0, after |-> "none", after_error |-> FALSE]

NoCall == [op |-> "none", arg |-> 0, ret |-> NULL, err |-> "none", had |-> FALSE]

(* -------------------------- prefix_t objects --------------------------- *)

\* the prefix_t on the stack of a call (lprefix); the other addresses are
\* those of the prefix_t blocks that PyMem_Malloc returns
StackPrefix == CellsOf(AF_INET) + CellsOf(AF_INET6) + 1

PrefixIds == NodeIds \cup {StackPrefix}

\* a block that is not allocated
FreePrefix == [alloc |-> FALSE, ref_count |-> 0]

\* no prefix_t is allocated and no node points to one.  of[n] is the pointer
\* node->prefix of node n, obj[p] the block at p, and misuse the calls of
\* PyMem_Free on a block that was not allocated.
NoPrefixes ==
    [of |-> [n \in NodeIds |-> NULL],
     obj |-> [p \in PrefixIds |-> FreePrefix],
     misuse |-> {}]

\* PyMem_Malloc(sizeof(prefix_t)): the address is chosen as for the nodes,
\* by a placement hint (memory suffices for the prefixes)
MallocPrefix(P, hint) ==
    IF ~P.obj[hint].alloc THEN hint
    ELSE CHOOSE p \in NodeIds : ~P.obj[p].alloc /\ \A q \in NodeIds : ~P.obj[q].alloc => p <= q

\* New_Prefix2 with prefix = NULL: a new block with ref_count 1
New_Prefix2_Block(P, hint) ==
    LET p == MallocPrefix(P, hint)
    IN [P |-> [P EXCEPT !.obj[p] = [alloc |-> TRUE, ref_count |-> 1]], p |-> p]

\* (a variant that returns the prefix without counting the reference)
NoCount_Ref_Prefix_Block(P, p, hint) ==
    IF P.obj[p].ref_count = 0 THEN New_Prefix2_Block(P, hint)
    ELSE [P |-> P, p |-> p]

\* Ref_Prefix on the prefix_t at p: a copy when its ref_count is 0 (a
\* prefix_t that is not on the heap), else the same block, counted once more
Ref_Prefix_Block(P, p, hint) ==
    IF P.obj[p].ref_count = 0 THEN New_Prefix2_Block(P, hint)
    ELSE [P |-> [P EXCEPT !.obj[p].ref_count = @ + 1], p |-> p]

\* PyMem_Free(prefix)
Free_Prefix_Block(P, p) ==
    IF P.obj[p].alloc THEN [P EXCEPT !.obj[p] = FreePrefix]
    ELSE [P EXCEPT !.obj[p] = FreePrefix, !.misuse = @ \cup {p}]

\* Deref_Prefix on the prefix_t at p
Deref_Prefix(P, p) ==
    IF p = NULL THEN P
    ELSE IF P.obj[p].ref_count - 1 <= 0 THEN Free_Prefix_Block(P, p)
    ELSE [P EXCEPT !.obj[p].ref_count = @ - 1]

\* the nodes to which radix_lookup has assigned node->prefix = Ref_Prefix(prefix)
LookupStores(M, res) ==
    {n \in NodeIds : M.heap[n].prefix = NoPrefix /\ res.M.heap[n].prefix # NoPrefix}

RECURSIVE StorePrefix(_, _, _)
\* those assignments, made with the prefix_t at p
StorePrefix(P, p, nodes) ==
    IF nodes = {} THEN P
    ELSE LET n == CHOOSE m \in nodes : TRUE
             r == Ref_Prefix_Block(P, p, n)
         IN StorePrefix([r.P EXCEPT !.of[n] = r.p], p, nodes \ {n})

\* Radix.add once args_to_prefix(NULL, ...) has returned the block new.p:
\* create_add_node, then Deref_Prefix(prefix)
AddReleases(new, stores) == Deref_Prefix(StorePrefix(new.P, new.p, stores), new.p)

\* the prefix_t objects after Radix.add has called radix_lookup, which
\* returned res
AddPrefixes(P, M, res) ==
    AddReleases(New_Prefix2_Block(P, IF res.node = NULL THEN 1 ELSE res.node),
                LookupStores(M, res))

\* the prefix_t objects after Radix.add(arg)
Radix_add_prefixes(arg) ==
    LET prefix == args_to_prefix(NoPrefix, arg)
    IN IF prefix = NoPrefix THEN pmem
       ELSE AddPrefixes(pmem, Mem, radix_lookup(Mem, prefix, {}))

\* radix_remove(node): Deref_Prefix(node->prefix); the node is freed or its
\* prefix pointer set to NULL
RemovePrefix(P, node) == [Deref_Prefix(P, P.of[node]) EXCEPT !.of[node] = NULL]

\* the prefix_t objects after Radix.delete(arg), whose prefix is lprefix on
\* the stack
Radix_delete_prefixes(arg, lprefix) ==
    LET prefix == args_to_prefix(lprefix, arg)
    IN IF prefix = NoPrefix THEN pmem
       ELSE IF radix_search_exact(Mem, prefix) = NULL THEN pmem
       ELSE RemovePrefix(pmem, radix_search_exact(Mem, prefix))

(* ----------------------- RadixNodeObject objects ----------------------- *)

\* The addresses of the RadixNodeObject objects: two for each node cell, so
\* that the object of a node that was deleted, which the caller may still
\* hold, and the object of a node added later in the same place are two.
ObjIds == 1 .. 2 * (CellsOf(AF_INET) + CellsOf(AF_INET6))

\* the other address of the pair of a cell
Twin(o) ==
    IF o <= CellsOf(AF_INET) + CellsOf(AF_INET6)
    THEN o + CellsOf(AF_INET) + CellsOf(AF_INET6)
    ELSE o - (CellsOf(AF_INET) + CellsOf(AF_INET6))

\* an object that is not allocated
FreeObject == [alloc |-> FALSE, rn |-> NULL]

\* no RadixNodeObject yet.  of[n] is the object that the data pointer of
\* node n points to when it is not NULL.
NoNodeObjects == [of |-> [n \in NodeIds |-> NULL], obj |-> [o \in ObjIds |-> FreeObject]]

\* newRadixNodeObject(rn): PyObject_New and self->rn = rn; the caller
\* stores the object in rn->data
newRadixNodeObject(O, rn) ==
    LET self == IF ~O.obj[rn].alloc THEN rn ELSE Twin(rn)
    IN [of |-> [O.of EXCEPT ![rn] = self],
        obj |-> [O.obj EXCEPT ![self] = [alloc |-> TRUE, rn |-> rn]]]

\* the objects after create_add_node, whose radix_lookup has returned res:
\* a node whose data is NULL gets a new object
AddObjects(O, res) ==
    IF res.fault \/ res.node = NULL THEN O
    ELSE IF res.M.heap[res.node].data = NULL THEN newRadixNodeObject(O, res.node)
    ELSE O

\* the objects after Radix.add(arg)
Radix_add_objects(arg) ==
    LET prefix == args_to_prefix(NoPrefix, arg)
    IN IF prefix = NoPrefix THEN nodeobjs
       ELSE AddObjects(nodeobjs, radix_lookup(Mem, prefix, {}))

\* Py_XDECREF(node_obj) in Radix.delete: the tree gives up its reference.
\* The caller holds the object of the node deleted last and has given up
\* those of the nodes deleted before, which are freed.
ReleaseObject(O, node_obj) ==
    [O EXCEPT !.obj = [o \in ObjIds |->
        IF o # node_obj /\ O.obj[o].alloc /\ O.obj[o].rn = NULL THEN FreeObject ELSE O.obj[o]]]

\* (a variant that looks at node->data after radix_remove)
Late_DeleteObjects(O, M, node) ==
    IF radix_remove(M, node).M.heap[node].data # NULL
    THEN ReleaseObject([O EXCEPT !.obj[O.of[node]].rn = NULL], O.of[node])
    ELSE O

\* the objects after Radix.delete has found node in the memory M: when
\* node->data is not NULL, node_obj->rn = NULL and Py_XDECREF(node_obj)
DeleteObjects(O, M, node) ==
    IF M.heap[node].data # NULL
    THEN ReleaseObject([O EXCEPT !.obj[O.of[node]].rn = NULL], O.of[node])
    ELSE O

\* the objects after Radix.delete(arg), whose prefix is lprefix on the stack
Radix_delete_objects(arg, lprefix) ==
    LET prefix == args_to_prefix(lprefix, arg)
    IN IF prefix = NoPrefix THEN nodeobjs
       ELSE IF radix_search_exact(Mem, prefix) = NULL THEN nodeobjs
       ELSE DeleteObjects(nodeobjs, Mem, radix_search_exact(Mem, prefix))

\* newRadixObject
Init ==
    /\ heap = [n \in NodeIds |-> FreeCell]
    /\ rt = New_Radix
    /\ gen_id = 0
    /\ fault = FALSE
    /\ iter = NoIter
    /\ added = {}
    /\ last = NoCall
    /\ mods = 0
    /\ it_last = NoNext
    /\ pmem = NoPrefixes
    /\ nodeobjs = NoNodeObjects

\* the allocations of radix_lookup that can be made to fail
AllocSites == {"node", "glue"}

\* create_add_node after its call of radix_lookup has returned res: NULL
\* raises MemoryError and returns; else the node gets its RadixNode object
\* (data) when it has none, and gen_id is incremented
AddLookedUp(prefix, res) ==
    IF res.fault THEN /\ fault' = TRUE
                      /\ UNCHANGED <<heap, rt, gen_id, added>>
    ELSE IF res.node = NULL
    THEN /\ heap' = res.M.heap
         /\ rt' = res.M.rt
         /\ UNCHANGED <<gen_id, added, fault>>
    ELSE /\ heap' = IF res.M.heap[res.node].data = NULL
                    THEN [res.M.heap EXCEPT ![res.node].data = res.node]
                    ELSE res.M.heap
         /\ rt' = res.M.rt
         /\ gen_id' = (gen_id + 1) % UIntMod
         /\ added' = added \cup {Canon(prefix)}
         /\ UNCHANGED fault

\* create_add_node on a prefix that args_to_prefix accepted
create_add_node(prefix, fail) == AddLookedUp(prefix, radix_lookup(Mem, prefix, fail))

\* Radix.add(network | packed, masklen); fail is the set of allocations of
\* radix_lookup at which PyMem_Malloc returns NULL during the call
Radix_add(arg, fail) ==
    LET prefix == args_to_prefix(NoPrefix, arg)
    IN /\ ~fault
       /\ IF prefix = NoPrefix THEN UNCHANGED <<heap, rt, gen_id, fault, added>>
          ELSE create_add_node(prefix, fail)

\* what create_add_node returns when radix_lookup has returned node
AddLookedUpReturn(arg, prefix, node) ==
    [op |-> "add", arg |-> arg, ret |-> node,
     err |-> IF node = NULL THEN "MemoryError" ELSE "none",
     had |-> Canon(prefix) \in added]

\* what Radix.add returns: the object of the node, or the error raised
AddReturn(arg, fail) ==
    LET prefix == args_to_prefix(NoPrefix, arg)
    IN IF prefix = NoPrefix
       THEN [op |-> "add", arg |-> arg, ret |-> NULL, err |-> "ValueError", had |-> FALSE]
       ELSE AddLookedUpReturn(arg, prefix, radix_lookup(Mem, prefix, fail).node)

\* radix_lookup has returned a node (or has read through a NULL pointer)
LookupReturnsNode(res) == res.fault \/ res.node # NULL

\* memory suffices for Radix.add(arg): no allocation of the call fails
MemorySuffices(arg) ==
    LET prefix == args_to_prefix(NoPrefix, arg)
    IN prefix # NoPrefix => LookupReturnsNode(radix_lookup(Mem, prefix, {}))

\* (a variant that counts the call before it looks the prefix up)
CountFirst_Radix_delete(arg, lprefix) ==
    LET prefix == args_to_prefix(lprefix, arg)
        node == radix_search_exact(Mem, prefix)
    IN /\ ~fault
       /\ IF prefix = NoPrefix THEN UNCHANGED <<heap, rt, gen_id, fault, added>>
          ELSE IF node = NULL
          THEN gen_id' = (gen_id + 1) % UIntMod /\ UNCHANGED <<heap, rt, fault, added>>
          ELSE LET res == radix_remove(Mem, node)
               IN /\ heap' = res.M.heap
                  /\ rt' = res.M.rt
                  /\ fault' = res.fault
                  /\ gen_id' = (gen_id + 1) % UIntMod
                  /\ added' = added \ {Canon(prefix)}

\* Radix.delete(network | packed, masklen); lprefix is what the prefix_t on
\* the stack of the call holds at entry
Radix_delete(arg, lprefix) ==
    LET prefix == args_to_prefix(lprefix, arg)
        node == radix_search_exact(Mem, prefix)
    IN /\ ~fault
       /\ IF prefix = NoPrefix \/ node = NULL THEN UNCHANGED <<heap, rt, gen_id, fault, added>>
          ELSE LET res == radix_remove(Mem, node)
               IN /\ heap' = res.M.heap
                  /\ rt' = res.M.rt
                  /\ fault' = res.fault
                  /\ gen_id' = (gen_id + 1) % UIntMod
                  /\ added' = added \ {Canon(prefix)}

\* what Radix.delete returns: None, or the error raised
DeleteReturn(arg, lprefix) ==
    LET prefix == args_to_prefix(lprefix, arg)
    IN [op |-> "delete", arg |-> arg, ret |-> NULL,
        err |-> IF prefix = NoPrefix THEN "ValueError"
                ELSE IF radix_search_exact(Mem, prefix) = NULL THEN "KeyError"
                ELSE "none",
        had |-> prefix # NoPrefix /\ Canon(prefix) \in added]

\* the memory after create_add_node(prefix) when radix_lookup has returned
\* res with a node: the node has its RadixNode object
LookedUpMem(res) ==
    [res.M EXCEPT !.heap[res.node].data =
        IF res.M.heap[res.node].data = NULL THEN res.node ELSE res.M.heap[res.node].data]

\* the memory after a successful create_add_node(prefix) on the memory M
AddedMem(M, prefix) == LookedUpMem(radix_lookup(M, prefix, {}))

\* (a variant that only takes the prefix and the data off the node)
Lazy_DeletedMem(M, prefix) ==
    [M EXCEPT !.heap[radix_search_exact(M, prefix)].prefix = NoPrefix,
              !.heap[radix_search_exact(M, prefix)].data = NULL]

\* the memory after Radix.delete of a prefix that radix_search_exact finds
\* in the memory M
DeletedMem(M, prefix) == radix_remove(M, radix_search_exact(M, prefix)).M

\* The adds of Spec, SpecCalls and SpecIter are those for which memory
\* suffices.  Their deletes are called with prefixes that parse, which
\* overwrite whatever the prefix_t on the stack held.
Add ==
    \E arg \in AddArgs :
        MemorySuffices(arg) /\ Radix_add(arg, {}) /\ UNCHANGED <<last, itvars, pmem, nodeobjs>>

Delete == \E arg \in AddArgs : Radix_delete(arg, Uninit) /\ UNCHANGED <<last, itvars, pmem, nodeobjs>>

Next == Add \/ Delete

Spec == Init /\ [][Next]_vars

\* the same calls on IPv4 text prefixes, each recording what it returned
AddCall ==
    \E arg \in CallArgs :
        /\ MemorySuffices(arg)
        /\ Radix_add(arg, {})
        /\ last' = AddReturn(arg, {})
        /\ UNCHANGED <<itvars, pmem, nodeobjs>>

DeleteCall ==
    \E arg \in CallArgs : Radix_delete(arg, Uninit) /\ last' = DeleteReturn(arg, Uninit) /\ UNCHANGED <<itvars, pmem, nodeobjs>>

NextCalls == AddCall \/ DeleteCall

SpecCalls == Init /\ [][NextCalls]_vars

(* ---------------------------- the iterator ---------------------------- *)

\* the arguments of the specification with an iterator
IterArgs ==
    ArgsOf(AF_INET, {WinLo(AF_INET), WinLo(AF_INET) + 1})
        \cup ArgsOf(AF_INET6, {RADIX_MAXBITS_BY_PREFIX([family |-> AF_INET6])})

\* the adds and deletes that are followed between two calls of next
MaxMods == UIntMod + 1

\* newRadixIterObject
newRadixIterObject ==
    [live |-> TRUE, sp |-> << >>, rn |-> rt.head_ipv4, af |-> AF_INET, gen_id |-> gen_id]

\* (a variant that does not stack the right child)
NoPush_IterAdvance(it) ==
    LET n == heap[it.rn]
    IN IF n.l # NULL THEN [it EXCEPT !.rn = n.l]
       ELSE IF n.r # NULL THEN [it EXCEPT !.rn = n.r]
       ELSE IF it.sp # << >>
       THEN [it EXCEPT !.rn = it.sp[Len(it.sp)], !.sp = SubSeq(it.sp, 1, Len(it.sp) - 1)]
       ELSE [it EXCEPT !.rn = NULL]

\* "Get next node": the iterator after it has stepped from its node rn
IterAdvance(it) ==
    LET n == heap[it.rn]
    IN IF n.l # NULL
       THEN [it EXCEPT !.sp = IF n.r # NULL THEN Append(it.sp, n.r) ELSE it.sp, !.rn = n.l]
       ELSE IF n.r # NULL THEN [it EXCEPT !.rn = n.r]
       ELSE IF it.sp # << >>
       THEN [it EXCEPT !.rn = it.sp[Len(it.sp)], !.sp = SubSeq(it.sp, 1, Len(it.sp) - 1)]
       ELSE [it EXCEPT !.rn = NULL]

RECURSIVE IterAgain(_)
\* RadixIter_iternext from the label again: the iterator afterwards and what
\* is returned: a node's object, the end of the iteration, or a read of a
\* node that has been freed
IterAgain(it) ==
    IF it.rn = NULL
    THEN IF it.af = AF_INET6 THEN [it |-> it, kind |-> "stop", node |-> NULL]
         ELSE IterAgain([it EXCEPT !.sp = << >>, !.rn = rt.head_ipv6, !.af = AF_INET6])
    ELSE IF ~heap[it.rn].alloc THEN [it |-> it, kind |-> "fault", node |-> NULL]
    ELSE IF heap[it.rn].prefix = NoPrefix \/ heap[it.rn].data = NULL
    THEN IterAgain(IterAdvance(it))
    ELSE [it |-> IterAdvance(it), kind |-> "node", node |-> heap[it.rn].data]

\* RadixIter_iternext
RadixIter_iternext(it) ==
    IF it.gen_id # gen_id THEN [it |-> it, kind |-> "error", node |-> NULL]
    ELSE IterAgain(it)

\* iter(tree)
GetIter ==
    /\ ~fault
    /\ iter' = newRadixIterObject
    /\ mods' = 0
    /\ it_last' = NoNext
    /\ UNCHANGED <<heap, rt, gen_id, fault, added, last, pmem, nodeobjs>>

\* next(iter)
IterNext ==
    /\ ~fault
    /\ iter.live
    /\ LET res == RadixIter_iternext(iter)
       IN /\ iter' = res.it
          /\ it_last' = [kind |-> res.kind, node |-> res.node, mods |-> mods,
                          after |-> last.op, after_error |-> it_last.kind = "error"]
          /\ fault' = (res.kind = "fault")
    /\ UNCHANGED <<heap, rt, gen_id, added, last, mods, pmem, nodeobjs>>

\* the adds and deletes while the iterator exists
IterAdd ==
    \E arg \in IterArgs :
        /\ mods < MaxMods
        /\ MemorySuffices(arg)
        /\ Radix_add(arg, {})
        /\ mods' = IF iter.live /\ AddReturn(arg, {}).err = "none" THEN mods + 1 ELSE mods
        /\ UNCHANGED <<iter, it_last, last, pmem, nodeobjs>>

IterDelete ==
    \E arg \in IterArgs :
        /\ mods < MaxMods
        /\ Radix_delete(arg, Uninit)
        /\ mods' = IF iter.live /\ DeleteReturn(arg, Uninit).err = "none" THEN mods + 1 ELSE mods
        /\ UNCHANGED <<iter, it_last, last, pmem, nodeobjs>>

NextIter == IterAdd \/ IterDelete \/ GetIter \/ IterNext

SpecIter == Init /\ [][NextIter]_vars

(* ------------------- adds under allocation failure --------------------- *)

\* the arguments of the specification in which allocations fail
OomArgs == IterArgs

\* the allocated nodes that no head leads to
Leaked == {n \in NodeIds : heap[n].alloc} \ (Subtree(heap, rt.head_ipv4) \cup Subtree(heap, rt.head_ipv6))

\* Radix.add while PyMem_Malloc returns NULL at the chosen allocation of
\* radix_lookup.  A failure is followed while no node has been left behind
\* by an earlier one; the other adds are those for which memory suffices.
OomAdd ==
    \E arg \in OomArgs : \E fail \in {{}} \cup {{site} : site \in AllocSites} :
        /\ IF fail = {} THEN MemorySuffices(arg) ELSE Leaked = {}
        /\ Radix_add(arg, fail)
        /\ last' = AddReturn(arg, fail)
        /\ UNCHANGED <<itvars, pmem, nodeobjs>>

OomDelete ==
    \E arg \in OomArgs :
        /\ Radix_delete(arg, Uninit)
        /\ last' = DeleteReturn(arg, Uninit)
        /\ UNCHANGED <<itvars, pmem, nodeobjs>>

NextOom == OomAdd \/ OomDelete

SpecOom == Init /\ [][NextOom]_vars

(* ------------------- the binding's search methods ---------------------- *)

ERROR == 0 - 1

\* the object a search method returns for the node found: None (NULL) when
\* there is no node or the node has no object
ObjectOf(node) == IF node = NULL \/ heap[node].data = NULL THEN NULL ELSE heap[node].data

Radix_search_exact(arg, lprefix) ==
    LET prefix == args_to_prefix(lprefix, arg)
    IN IF prefix = NoPrefix THEN ERROR ELSE ObjectOf(radix_search_exact(Mem, prefix))

Radix_search_best(arg, lprefix, junk) ==
    LET prefix == args_to_prefix(lprefix, arg)
    IN IF prefix = NoPrefix THEN ERROR ELSE ObjectOf(radix_search_best(Mem, prefix, junk))

Radix_search_worst(arg, lprefix, junk) ==
    LET prefix == args_to_prefix(lprefix, arg)
    IN IF prefix = NoPrefix THEN ERROR ELSE ObjectOf(radix_search_worst(Mem, prefix, junk))

\* add_node_to_list over the nodes a walk called back on
NodeList(calls) ==
    LET keep(n) == heap[n].data # NULL
    IN [i \in 1 .. Len(SelectSeq(calls, keep)) |-> heap[SelectSeq(calls, keep)[i]].data]

Radix_search_covering(arg, lprefix, junk) ==
    LET prefix == args_to_prefix(lprefix, arg)
    IN IF prefix = NoPrefix THEN ERROR
       ELSE NodeList(radix_search_covering(Mem, prefix, {}, junk).calls)

Radix_search_covered(arg, lprefix) ==
    LET prefix == args_to_prefix(lprefix, arg)
    IN IF prefix = NoPrefix THEN ERROR
       ELSE NodeList(radix_search_covered(Mem, prefix, {}, TRUE).calls)

(* ------------- calls with prefix lengths of every kind ----------------- *)

\* the search methods that take a prefix
SearchOps == {"search_exact", "search_best", "search_worst", "search_covered", "search_covering"}

\* the method op called with arg
Radix_search(op, arg, lprefix, junk) ==
    CASE op = "search_exact" -> Radix_search_exact(arg, lprefix)
      [] op = "search_best" -> Radix_search_best(arg, lprefix, junk)
      [] op = "search_worst" -> Radix_search_worst(arg, lprefix, junk)
      [] op = "search_covered" -> Radix_search_covered(arg, lprefix)
      [] op = "search_covering" -> Radix_search_covering(arg, lprefix, junk)

\* what a search method returns: its result, or the error raised when
\* args_to_prefix returns NULL
SearchReturn(op, arg, lprefix, junk) ==
    LET ret == Radix_search(op, arg, lprefix, junk)
    IN IF args_to_prefix(lprefix, arg) = NoPrefix
       THEN [op |-> op, arg |-> arg, ret |-> NULL, err |-> "ValueError", had |-> FALSE]
       ELSE [op |-> op, arg |-> arg, ret |-> ret, err |-> "none", had |-> FALSE]

\* the prefix length of arg lies outside the range of its family and is not
\* the "not given" value
OutOfRange(arg) ==
    /\ arg.masklen # -1
    /\ arg.masklen < 0 \/ arg.masklen > RADIX_MAXBITS_BY_PREFIX(arg)

\* arguments that parse
GoodArgs == ArgsOf(AF_INET, {WinLo(AF_INET) + 1})

\* arguments with a prefix length out of range: negative, one beyond the
\* maximum, and one that is in range only after the conversion to int
BadArgs ==
    {[form |-> fm, family |-> AF_INET, addr |-> AddrOf(AF_INET, 1), masklen |-> l] :
        fm \in {"text", "packed"}, l \in {-2, 33, 2 ^ IntBits + WinLo(AF_INET) + 1}}
    \cup {[form |-> fm, family |-> AF_INET6, addr |-> AddrOf(AF_INET6, 1), masklen |-> 129] :
        fm \in {"text", "packed"}}

\* what the prefix_t on the stack of a call may hold at entry: nothing
\* usable, or the prefix that an earlier call left there
StackPrefixes == {Uninit} \cup {args_to_prefix(Uninit, a) : a \in GoodArgs}

\* the contents of the prefix_t that are followed for a call with arg: a
\* prefix that parses overwrites whatever the prefix_t held
StackFor(arg) == IF OutOfRange(arg) THEN StackPrefixes ELSE {Uninit}

ArgsAdd ==
    \E arg \in GoodArgs \cup BadArgs :
        /\ MemorySuffices(arg)
        /\ Radix_add(arg, {})
        /\ last' = AddReturn(arg, {})
        /\ UNCHANGED <<itvars, pmem, nodeobjs>>

ArgsDelete ==
    \E arg \in GoodArgs \cup BadArgs : \E lprefix \in StackFor(arg) :
        /\ Radix_delete(arg, lprefix)
        /\ last' = DeleteReturn(arg, lprefix)
        /\ UNCHANGED <<itvars, pmem, nodeobjs>>

ArgsSearch ==
    \E op \in SearchOps : \E arg \in GoodArgs \cup BadArgs : \E lprefix \in StackFor(arg) :
        /\ ~fault
        /\ last' = SearchReturn(op, arg, lprefix, FALSE)
        /\ UNCHANGED <<heap, rt, gen_id, fault, added, itvars, pmem, nodeobjs>>

NextArgs == ArgsAdd \/ ArgsDelete \/ ArgsSearch

SpecArgs == Init /\ [][NextArgs]_vars

(* ------------------ read-only calls and the iterator ------------------- *)

RECURSIVE TreeWalk(_, _)
\* RADIX_TREE_WALK from node n: the nodes of the subtree, a node before its
\* children and the left child before the right one
TreeWalk(h, n) ==
    IF n = NULL THEN << >> ELSE <<n>> \o TreeWalk(h, h[n].l) \o TreeWalk(h, h[n].r)

\* Radix.nodes(): the objects of the nodes that have one
Radix_nodes == NodeList(TreeWalk(heap, rt.head_ipv4) \o TreeWalk(heap, rt.head_ipv6))

\* Radix.prefixes(): the prefix strings of those objects
Radix_prefixes ==
    LET nodes == Radix_nodes
    IN [i \in 1 .. Len(nodes) |-> Canon(heap[nodes[i]].prefix)]

\* the calls that only read the tree: the searches, nodes(), prefixes(), and
\* a write to the data dict of a RadixNode object, which is held by the
\* object and not by the tree
ReadOps == SearchOps \cup {"nodes", "prefixes", "data"}

\* what the read-only call op returns
ReadReturn(op, arg) ==
    IF op \in SearchOps THEN SearchReturn(op, arg, Uninit, FALSE)
    ELSE [op |-> op, arg |-> 0,
          ret |-> CASE op = "nodes" -> Radix_nodes
                    [] op = "prefixes" -> Radix_prefixes
                    [] op = "data" -> ObjectOf(radix_search_exact(Mem, args_to_prefix(Uninit, arg))),
          err |-> "none", had |-> FALSE]

\* the arguments of the read-only calls
ReadArgs == {a \in IterArgs : a.form = "text" /\ a.addr = AddrOf(a.family, 1)}

\* the read-only calls: nodes() and prefixes() take no argument
ReadCalls ==
    {<<op, arg>> : op \in ReadOps \ {"nodes", "prefixes"}, arg \in ReadArgs}
        \cup {<<"nodes", 0>>, <<"prefixes", 0>>}

\* (a variant in which a read-only call counts as a modification)
Counting_IterRead ==
    \E call \in ReadCalls : LET op == call[1] arg == call[2] IN
        /\ ~fault
        /\ iter.live
        /\ last' = [ReadReturn(op, arg) EXCEPT !.arg = 0, !.ret = NULL]
        /\ gen_id' = (gen_id + 1) % UIntMod
        /\ UNCHANGED <<heap, rt, fault, added, itvars, pmem, nodeobjs>>

\* a read-only call while the iterator exists; the call is recorded by name
IterRead ==
    \E call \in ReadCalls : LET op == call[1] arg == call[2] IN
        /\ ~fault
        /\ iter.live
        /\ last' = [ReadReturn(op, arg) EXCEPT !.arg = 0, !.ret = NULL]
        /\ UNCHANGED <<heap, rt, gen_id, fault, added, itvars, pmem, nodeobjs>>

\* the tree is built, then iterated over with read-only calls in between
BuildAdd == ~iter.live /\ IterAdd

BuildDelete == ~iter.live /\ IterDelete

ReadGetIter == ~iter.live /\ GetIter

NextRead == BuildAdd \/ BuildDelete \/ ReadGetIter \/ IterNext \/ IterRead

SpecRead == Init /\ [][NextRead]_vars

(* ------------------------- clearing the tree --------------------------- *)

\* the larger of two numbers: the fill of Xstack after a push, against the
\* largest fill so far
Max(a, b) == IF a >= b THEN a ELSE b

\* (a variant that frees the node before it calls func)
Late_ClearNode(S, Xrn, func) ==
    [S EXCEPT
        !.P = IF S.M.heap[Xrn].prefix # NoPrefix
              THEN [Deref_Prefix(S.P, S.P.of[Xrn]) EXCEPT !.of[Xrn] = NULL]
              ELSE S.P,
        !.events = S.events
            \o (IF S.M.heap[Xrn].prefix # NoPrefix
                THEN <<[what |-> "Deref_Prefix", node |-> Xrn]>> ELSE << >>)
            \o <<[what |-> IF S.M.heap[Xrn].alloc THEN "PyMem_Free" ELSE "free of a freed node",
                  node |-> Xrn]>>
            \o (IF S.M.heap[Xrn].prefix # NoPrefix /\ S.M.heap[Xrn].data # NULL /\ func
                THEN <<[what |-> "func", node |-> Xrn]>> ELSE << >>),
        !.M = [heap |-> Free(S.M.heap, Xrn),
               rt |-> [S.M.rt EXCEPT !.num_active_node = @ - 1]]]

\* one turn of the loop of radix_clear_head on node Xrn: the prefix is
\* released, func is called when it is supplied and the node has data, the
\* node is freed and num_active_node decremented.  S holds the tree (M), the
\* prefix_t objects (P), the stack (Xsp), what was done in order (events)
\* and the largest size of the stack (depth).
ClearNode(S, Xrn, func) ==
    [S EXCEPT
        !.P = IF S.M.heap[Xrn].prefix # NoPrefix
              THEN [Deref_Prefix(S.P, S.P.of[Xrn]) EXCEPT !.of[Xrn] = NULL]
              ELSE S.P,
        !.events = S.events
            \o (IF S.M.heap[Xrn].prefix # NoPrefix
                THEN <<[what |-> "Deref_Prefix", node |-> Xrn]>> ELSE << >>)
            \o (IF S.M.heap[Xrn].prefix # NoPrefix /\ S.M.heap[Xrn].data # NULL /\ func
                THEN <<[what |-> "func", node |-> Xrn]>> ELSE << >>)
            \o <<[what |-> IF S.M.heap[Xrn].alloc THEN "PyMem_Free" ELSE "free of a freed node",
                  node |-> Xrn]>>,
        !.M = [heap |-> Free(S.M.heap, Xrn),
               rt |-> [S.M.rt EXCEPT !.num_active_node = @ - 1]]]

\* (a variant that stacks both children)
Both_ClearPush(S, l, r) ==
    IF l # NULL /\ r # NULL
    THEN [S EXCEPT !.Xsp = Append(Append(S.Xsp, r), l), !.depth = Max(S.depth, Len(S.Xsp) + 2)]
    ELSE S

\* the stack after the children l and r of the node have been looked at
ClearPush(S, l, r) ==
    IF l # NULL /\ r # NULL
    THEN [S EXCEPT !.Xsp = Append(S.Xsp, r), !.depth = Max(S.depth, Len(S.Xsp) + 1)]
    ELSE S

RECURSIVE ClearLoop(_, _, _)
\* while (Xrn) of radix_clear_head
ClearLoop(S, Xrn, func) ==
    IF Xrn = NULL THEN S
    ELSE LET l == S.M.heap[Xrn].l
             r == S.M.heap[Xrn].r
             S1 == ClearPush(ClearNode(S, Xrn, func), l, r)
         IN IF l # NULL THEN ClearLoop(S1, l, func)
            ELSE IF r # NULL THEN ClearLoop(S1, r, func)
            ELSE IF S1.Xsp # << >>
            THEN ClearLoop([S1 EXCEPT !.Xsp = SubSeq(S1.Xsp, 1, Len(S1.Xsp) - 1)],
                           S1.Xsp[Len(S1.Xsp)], func)
            ELSE S1

\* radix_clear_head(radix, head, func, cbctx)
radix_clear_head(S, head, func) == ClearLoop([S EXCEPT !.Xsp = << >>], head, func)

\* Clear_Radix(radix, func, cbctx) on the tree M with the prefix_t objects P
\* (Destroy_Radix then frees the radix_tree_t)
Clear_Radix(M, P, func) ==
    radix_clear_head(
        radix_clear_head([M |-> M, P |-> P, Xsp |-> << >>, events |-> << >>, depth |-> 0],
                         M.rt.head_ipv4, func),
        M.rt.head_ipv6, func)

(* ---------------------- ownership of the prefixes ---------------------- *)

\* the adds, deletes and searches with the prefix_t objects they allocate,
\* reference and release
OwnAdd ==
    \E arg \in AddArgs :
        /\ MemorySuffices(arg)
        /\ Radix_add(arg, {})
        /\ pmem' = Radix_add_prefixes(arg)
        /\ UNCHANGED <<last, itvars, nodeobjs>>

OwnDelete ==
    \E arg \in AddArgs :
        /\ Radix_delete(arg, Uninit)
        /\ pmem' = Radix_delete_prefixes(arg, Uninit)
        /\ UNCHANGED <<last, itvars, nodeobjs>>

\* a search: its prefix is lprefix on the stack, which it only reads
OwnSearch ==
    \E call \in (SearchOps \X ReadArgs) :
        /\ ~fault
        /\ last' = [SearchReturn(call[1], call[2], Uninit, FALSE) EXCEPT !.arg = 0, !.ret = NULL]
        /\ UNCHANGED <<heap, rt, gen_id, fault, added, itvars, pmem, nodeobjs>>

NextOwn == OwnAdd \/ OwnDelete \/ OwnSearch

SpecOwn == Init /\ [][NextOwn]_vars

(* ------------------ the calls with their prefix_t objects --------------- *)

\* the adds and deletes of IPv4 text prefixes, each recording what it
\* returned, with the prefix_t objects they allocate and release
TrackAdd ==
    \E arg \in CallArgs :
        /\ MemorySuffices(arg)
        /\ Radix_add(arg, {})
        /\ pmem' = Radix_add_prefixes(arg)
        /\ last' = AddReturn(arg, {})
        /\ UNCHANGED <<itvars, nodeobjs>>

TrackDelete ==
    \E arg \in CallArgs :
        /\ Radix_delete(arg, Uninit)
        /\ pmem' = Radix_delete_prefixes(arg, Uninit)
        /\ last' = DeleteReturn(arg, Uninit)
        /\ UNCHANGED <<itvars, nodeobjs>>

NextTrack == TrackAdd \/ TrackDelete

SpecTrack == Init /\ [][NextTrack]_vars

(* --------------------- the calls with their objects --------------------- *)

\* the prefixes of the calls that are followed with their RadixNodeObject
\* objects: each prefix once, with no bit set beyond its length
ObjArgs ==
    {arg \in ArgsOf(AF_INET, {0, WinLo(AF_INET), WinLo(AF_INET) + 1}) :
        args_to_prefix(NoPrefix, arg).add = arg.addr}

\* the adds and deletes of IPv4 text prefixes, each recording what it
\* returned, with the RadixNodeObject objects they create and detach
ObjAdd ==
    \E arg \in ObjArgs :
        /\ MemorySuffices(arg)
        /\ Radix_add(arg, {})
        /\ nodeobjs' = Radix_add_objects(arg)
        /\ last' = AddReturn(arg, {})
        /\ UNCHANGED <<itvars, pmem>>

ObjDelete ==
    \E arg \in ObjArgs :
        /\ Radix_delete(arg, Uninit)
        /\ nodeobjs' = Radix_delete_objects(arg, Uninit)
        /\ last' = DeleteReturn(arg, Uninit)
        /\ UNCHANGED <<itvars, pmem>>

NextObj == ObjAdd \/ ObjDelete

SpecObj == Init /\ [][NextObj]_vars

RECURSIVE ParentWalk(_, _, _)
\* the loop of Radix_parent from node upwards in the heap h: the object of
\* the first node above that has data, NULL (None) when there is none
ParentWalk(h, O, node) ==
    IF node # NULL /\ h[node].parent # NULL
    THEN IF h[h[node].parent].data # NULL THEN O.of[h[node].parent]
         ELSE ParentWalk(h, O, h[node].parent)
    ELSE NULL

\* (a variant that looks at the node's parent only)
OneStep_Radix_parent(self) ==
    IF nodeobjs.obj[self].rn # NULL /\ heap[nodeobjs.obj[self].rn].parent # NULL
       /\ heap[heap[nodeobjs.obj[self].rn].parent].data # NULL
    THEN nodeobjs.of[heap[nodeobjs.obj[self].rn].parent]
    ELSE NULL

\* RadixNode.parent of the object self
Radix_parent(self) == ParentWalk(heap, nodeobjs, nodeobjs.obj[self].rn)

(* ------------------- the differ bit on drawn addresses ------------------ *)

\* the most bits in which a drawn address differs from the address it is
\* compared with
MaxFlips == 2

\* the bit positions in which the drawn addresses are made to differ: the
\* first and last bits of the address and of bytes at its start, middle
\* and end, and neighbouring bits within a byte and across two bytes
SampleBits4 == {0, 1, 6, 7, 8, 9, 15, 16, 23, 24, 30, 31}
SampleBits6 == {0, 7, 8, 63, 64, 120, 127}

FlipBits(family) == IF family = AF_INET THEN SampleBits4 ELSE SampleBits6

\* the address a with bit k (from the MSB of a[0]) inverted
FlipBit(a, k) ==
    [a EXCEPT ![(k \div ByteBits) + 1] =
        IF BIT_TEST(@, k % ByteBits) THEN @ - Pow2(ByteBits - 1 - (k % ByteBits))
        ELSE @ + Pow2(ByteBits - 1 - (k % ByteBits))]

RECURSIVE FlipAll(_, _)
FlipAll(a, F) ==
    IF F = {} THEN a
    ELSE LET k == CHOOSE k \in F : TRUE IN FlipAll(FlipBit(a, k), F \ {k})

RECURSIVE FlipSets(_, _)
\* the sets of at most n bit positions
FlipSets(family, n) ==
    IF n = 0 THEN {{}}
    ELSE FlipSets(family, n - 1)
            \cup {F \cup {k} : F \in FlipSets(family, n - 1), k \in FlipBits(family)}

\* the addresses of the landing node's prefix: all bits clear, and a
\* pattern of set and clear bits (165 = 0xa5, 60 = 0x3c)
TestAddrs(family) ==
    {[i \in 1 .. (IF family = AF_INET THEN 4 ELSE 16) |-> 0]}
        \cup (IF family = AF_INET THEN {<<165, 60, 255, 1>>} ELSE {})

\* the inputs of the differ bit computation: the address of the landing
\* node, a query address that differs from it in at most MaxFlips bits, and
\* a check_bit between 0 and the family's number of bits
DifferInputsOf(family) ==
    {[addr |-> FlipAll(test_addr, F), test_addr |-> test_addr, check_bit |-> check_bit] :
        test_addr \in TestAddrs(family),
        F \in FlipSets(family, MaxFlips),
        check_bit \in 0 .. RADIX_MAXBITS_BY_PREFIX([family |-> family])}

DifferInputs == UNION {DifferInputsOf(family) : family \in Families}

InitDiffer ==
    /\ heap = [n \in NodeIds |-> FreeCell]
    /\ rt = New_Radix
    /\ gen_id = 0
    /\ fault = FALSE
    /\ iter = NoIter
    /\ added = {}
    /\ \E input \in DifferInputs : last = [op |-> "input", arg |-> input, ret |-> NULL]
    /\ mods = 0
    /\ it_last = NoNext
    /\ pmem = NoPrefixes
    /\ nodeobjs = NoNodeObjects

\* "find the first bit different" of radix_lookup on the drawn input
DifferStep ==
    /\ last.op = "input"
    /\ last' = [op |-> "differ_bit", arg |-> last.arg,
                ret |-> DifferBit(last.arg.addr, last.arg.test_addr, last.arg.check_bit)]
    /\ UNCHANGED <<heap, rt, gen_id, fault, iter, added, mods, it_last, pmem, nodeobjs>>

NextDiffer == DifferStep

SpecDiffer == InitDiffer /\ [][NextDiffer]_vars

(* -------------------------- the two families --------------------------- *)

\* prefixes of both families, the default routes 0.0.0.0/0 and ::/0 included
FamArgs ==
    ArgsOf(AF_INET, {0, WinLo(AF_INET) + 1})
        \cup {a \in ArgsOf(AF_INET6, {0, RADIX_MAXBITS_BY_PREFIX([family |-> AF_INET6])}) :
                a.form = "text"}

FamAdd ==
    \E arg \in FamArgs :
        /\ MemorySuffices(arg)
        /\ Radix_add(arg, {})
        /\ last' = AddReturn(arg, {})
        /\ UNCHANGED <<itvars, pmem, nodeobjs>>

FamDelete ==
    \E arg \in FamArgs :
        /\ Radix_delete(arg, Uninit)
        /\ last' = DeleteReturn(arg, Uninit)
        /\ UNCHANGED <<itvars, pmem, nodeobjs>>

NextFam == FamAdd \/ FamDelete

SpecFam == Init /\ [][NextFam]_vars

(* --------------------- what the claims speak about --------------------- *)

Reachable == Subtree(heap, rt.head_ipv4) \cup Subtree(heap, rt.head_ipv6)

IsReal(n) == heap[n].prefix # NoPrefix

RealNodes == {n \in Reachable : IsReal(n)}

GlueNodes == {n \in Reachable : ~IsReal(n)}

\* the two addresses have the same first n bits
SameBits(a, b, n) == \A i \in 0 .. n - 1 : BIT_TEST_SEARCH_BIT(a, i) = BIT_TEST_SEARCH_BIT(b, i)

\* prefix P contains prefix Q
Contains(P, Q) ==
    /\ P.family = Q.family
    /\ P.bitlen <= Q.bitlen
    /\ SameBits(P.add, Q.add, P.bitlen)

SamePrefix(P, Q) == Contains(P, Q) /\ P.bitlen = Q.bitlen

\* the stored nodes whose prefix contains Q
Covering(Q) == {n \in RealNodes : Contains(heap[n].prefix, Q)}

\* the stored nodes whose prefix Q contains, Q's own node excluded
Covered(Q) == {n \in RealNodes : Contains(Q, heap[n].prefix) /\ heap[n].prefix.bitlen > Q.bitlen}

ValidQueryArgs == {a \in QueryArgs : args_to_prefix(Uninit, a) # NoPrefix}

\* what the byte behind the address may hold when a walk reads it
JunkOf(Q) == IF Q.bitlen = RADIX_MAXBITS_BY_PREFIX(Q) THEN BOOLEAN ELSE {FALSE}

\* the elements of a sequence, and whether it lists each of them once
Range(seq) == {seq[i] : i \in 1 .. Len(seq)}
NoRepeat(seq) == Cardinality(Range(seq)) = Len(seq)

\* C1: search_best(Q) returns the node of the longest stored prefix that
\* contains Q, and None exactly when no stored prefix contains Q
C1_BestMatch ==
    \A arg \in ValidQueryArgs :
        LET Q == args_to_prefix(Uninit, arg)
        IN \A junk \in JunkOf(Q) :
            LET n == Radix_search_best(arg, Uninit, junk)
            IN IF Covering(Q) = {} THEN n = NULL
               ELSE /\ n \in Covering(Q)
                    /\ \A m \in Covering(Q) : heap[m].prefix.bitlen <= heap[n].prefix.bitlen

\* a query contained by two stored prefixes of different length gets the longer
C1_Witness ==
    \E arg \in ValidQueryArgs :
        LET Q == args_to_prefix(Uninit, arg)
            n == Radix_search_best(arg, Uninit, FALSE)
        IN /\ Cardinality(Covering(Q)) >= 2
           /\ n \in Covering(Q)
           /\ \E m \in Covering(Q) : heap[m].prefix.bitlen < heap[n].prefix.bitlen
           /\ heap[n].prefix.bitlen < Q.bitlen

\* C2: search_exact(P) returns a node, whose prefix equals P, if and only if
\* P was added and not deleted since; right after add(P) it is the node that
\* add(P) returned, right after delete(P) it is None
C2_ExactIsSet ==
    /\ \A arg \in ValidQueryArgs :
          LET P == args_to_prefix(Uninit, arg)
              n == Radix_search_exact(arg, Uninit)
          IN /\ n # NULL <=> Canon(P) \in added
             /\ n # NULL => n \in RealNodes /\ SamePrefix(heap[n].prefix, P)
    /\ (last.op = "add" /\ last.err = "none") => Radix_search_exact(last.arg, Uninit) = last.ret
    /\ (last.op = "delete" /\ last.err = "none") => Radix_search_exact(last.arg, Uninit) = NULL

\* a delete has just removed a stored prefix while others stay stored
C2_Witness ==
    /\ last.op = "delete" /\ last.err = "none"
    /\ Radix_search_exact(last.arg, Uninit) = NULL
    /\ Cardinality(added) >= 2
    /\ \A P \in added : \E arg \in ValidQueryArgs :
          Canon(args_to_prefix(Uninit, arg)) = P /\ Radix_search_exact(arg, Uninit) # NULL

\* C3: search_worst(Q) returns the node of the shortest stored prefix that
\* contains Q, and None exactly when no stored prefix contains Q
C3_WorstMatch ==
    \A arg \in ValidQueryArgs :
        LET Q == args_to_prefix(Uninit, arg)
        IN \A junk \in JunkOf(Q) :
            LET n == Radix_search_worst(arg, Uninit, junk)
            IN IF Covering(Q) = {} THEN n = NULL
               ELSE /\ n \in Covering(Q)
                    /\ \A m \in Covering(Q) : heap[m].prefix.bitlen >= heap[n].prefix.bitlen

\* a query contained by two stored prefixes of different length gets the shorter
C3_Witness ==
    \E arg \in ValidQueryArgs :
        LET Q == args_to_prefix(Uninit, arg)
            n == Radix_search_worst(arg, Uninit, FALSE)
        IN /\ Cardinality(Covering(Q)) >= 2
           /\ n \in Covering(Q)
           /\ \E m \in Covering(Q) : heap[m].prefix.bitlen > heap[n].prefix.bitlen

\* C5: search_covering(Q) calls back exactly once on each stored prefix that
\* contains Q and on no other node
C5_Covering ==
    \A arg \in ValidQueryArgs :
        LET Q == args_to_prefix(Uninit, arg)
        IN \A junk \in JunkOf(Q) :
            LET res == radix_search_covering(Mem, Q, {}, junk)
            IN /\ Range(res.calls) = Covering(Q)
               /\ NoRepeat(res.calls)
               /\ res.rc = 0
               /\ Radix_search_covering(arg, Uninit, junk) = res.calls

\* a stored prefix below a glue node is covered by itself and by a stored
\* prefix above the glue node
C5_Witness ==
    \E n \in RealNodes :
        LET res == radix_search_covering(Mem, heap[n].prefix, {}, FALSE)
        IN /\ Len(res.calls) >= 2
           /\ n \in Range(res.calls)
           /\ heap[n].parent \in GlueNodes

\* C6: search_covered(Q, inclusive) calls back exactly once on each stored
\* prefix longer than Q (or as long, when inclusive) that agrees with Q on
\* Q's bits, and on no other node
C6_Covered ==
    \A arg \in ValidQueryArgs :
        LET Q == args_to_prefix(Uninit, arg)
            own == {n \in RealNodes : SamePrefix(heap[n].prefix, Q)}
            excl == radix_search_covered(Mem, Q, {}, FALSE)
            incl == radix_search_covered(Mem, Q, {}, TRUE)
        IN /\ Range(excl.calls) = Covered(Q)
           /\ NoRepeat(excl.calls)
           /\ Range(incl.calls) = Covered(Q) \cup own
           /\ NoRepeat(incl.calls)
           /\ Radix_search_covered(arg, Uninit) = incl.calls

\* where the walk of search_covered(Q) starts
CoveredStart(Q) ==
    LET d == CoveredDescend(heap, RADIX_HEAD_BY_PREFIX(rt, Q), Q, NULL, NULL)
    IN IF d.node = NULL THEN d.prev_node ELSE d.node

\* a walk that starts at a glue node reports prefixes, a walk that starts at
\* a node shallower than Q reports none although that node has another child
C6_Witness ==
    /\ \E arg \in ValidQueryArgs :
          LET Q == args_to_prefix(Uninit, arg)
          IN /\ CoveredStart(Q) \in GlueNodes
             /\ Len(radix_search_covered(Mem, Q, {}, FALSE).calls) >= 2
    /\ \E arg \in ValidQueryArgs :
          LET Q == args_to_prefix(Uninit, arg)
              st == CoveredStart(Q)
          IN /\ st # NULL
             /\ heap[st].bit < Q.bitlen
             /\ heap[st].l # NULL \/ heap[st].r # NULL
             /\ radix_search_covered(Mem, Q, {}, TRUE).calls = << >>

\* C7: adding a prefix that is already stored returns the node (and object)
\* that the first add returned and changes neither num_active_node, nor any
\* node, nor the set of stored prefixes
C7_InsertIdempotent ==
    [][(last'.op = "add" /\ last'.err = "none" /\ last'.had) =>
          /\ heap' = heap
          /\ rt' = rt
          /\ added' = added
          /\ last'.ret \in RealNodes
          /\ SamePrefix(heap[last'.ret].prefix, args_to_prefix(Uninit, last'.arg))
          /\ heap[last'.ret].data = last'.ret
          /\ (last.op = "add" /\ last.err = "none" /\ last.arg = last'.arg)
                => last'.ret = last.ret]_vars

\* a stored prefix with a parent and a child has just been added again
C7_Witness ==
    /\ last.op = "add" /\ last.err = "none" /\ last.had
    /\ last.ret \in RealNodes
    /\ heap[last.ret].parent # NULL
    /\ heap[last.ret].l # NULL \/ heap[last.ret].r # NULL

\* C8: num_active_node is the number of nodes, real and glue, reachable from
\* the two heads; it is 0 when every added prefix has been deleted
C8_ActiveCount ==
    /\ rt.num_active_node = Cardinality(Reachable)
    /\ added = {} => rt.num_active_node = 0

\* glue and real nodes of both families are counted
C8_Witness ==
    /\ rt.num_active_node = 4
    /\ GlueNodes # {}
    /\ rt.head_ipv4 # NULL
    /\ rt.head_ipv6 # NULL

\* C9: every reachable node without a prefix has a left and a right child
C9_GlueNecessity ==
    \A n \in GlueNodes : heap[n].l # NULL /\ heap[n].r # NULL

\* a glue node under a parent, whose two children are stored prefixes more
\* than one bit longer than the glue node's position
C9_Witness ==
    \E n \in GlueNodes :
        /\ heap[n].l \in RealNodes /\ heap[n].r \in RealNodes
        /\ heap[heap[n].l].prefix.bitlen > heap[n].bit + 1
        /\ heap[heap[n].r].prefix.bitlen > heap[n].bit + 1
        /\ heap[n].parent # NULL

\* the family of the tree a reachable node hangs in
MaxBitsOf(n) == IF n \in Subtree(heap, rt.head_ipv4) THEN 32 ELSE 128

\* C10: a child's bit is greater than its parent's; every bit lies between 0
\* and the family's maximum, and a node at the maximum is a leaf
C10_BitMonotone ==
    \A n \in Reachable :
        /\ heap[n].l # NULL => heap[heap[n].l].bit > heap[n].bit
        /\ heap[n].r # NULL => heap[heap[n].r].bit > heap[n].bit
        /\ heap[n].bit >= 0 /\ heap[n].bit <= MaxBitsOf(n)
        /\ heap[n].bit = MaxBitsOf(n) => heap[n].l = NULL /\ heap[n].r = NULL

\* a child under a parent in the IPv4 tree, and a leaf at the family's
\* maximum under a parent in the IPv6 tree
C10_Witness ==
    /\ \E n \in Subtree(heap, rt.head_ipv4) : heap[n].parent # NULL
    /\ \E n \in Subtree(heap, rt.head_ipv6) : heap[n].bit = 128 /\ heap[n].parent # NULL

\* C4: once an add or a successful delete has completed after the iterator
\* was created, whatever their number, next fails with the modification error
C4_NextFailsAfterModification ==
    (it_last.kind # "none" /\ it_last.mods >= 1) => it_last.kind = "error"

\* the non-null children of a node
Children(n) == {heap[n].l, heap[n].r} \ {NULL}

\* C11: every child of a reachable node has that node as its parent, the
\* head of each family has no parent, and no node is the child of two nodes
\* or the left and the right child of one node
C11_ParentConsistency ==
    /\ \A n \in Reachable :
          /\ \A c \in Children(n) : heap[c].parent = n
          /\ heap[n].l # NULL => heap[n].l # heap[n].r
    /\ rt.head_ipv4 # NULL => heap[rt.head_ipv4].parent = NULL
    /\ rt.head_ipv6 # NULL => heap[rt.head_ipv6].parent = NULL
    /\ \A n, m \in Reachable : n # m => Children(n) \cap Children(m) = {}
    /\ \A n \in Reachable : n \notin {rt.head_ipv4, rt.head_ipv6} =>
          heap[n].parent \in Reachable /\ n \in Children(heap[n].parent)

\* a glue node hangs as the right child under a stored prefix and has two
\* children of its own
C11_Witness ==
    \E n \in GlueNodes :
        /\ heap[n].parent \in RealNodes
        /\ heap[heap[n].parent].r = n
        /\ Cardinality(Children(n)) = 2

\* C12: every node with a prefix sits at the bit of its prefix length, and
\* the stored address has no bit set at or beyond the prefix length, for
\* prefixes added as text and as packed bytes
C12_PrefixAnchoring ==
    \A n \in RealNodes :
        /\ heap[n].bit = heap[n].prefix.bitlen
        /\ \A k \in heap[n].prefix.bitlen .. RADIX_MAXBITS_BY_PREFIX(heap[n].prefix) - 1 :
              ~BIT_TEST_SEARCH_BIT(heap[n].prefix.add, k)

RECURSIVE Drain(_, _)
\* list(it): next is called until it no longer returns a node
Drain(it, out) ==
    LET res == RadixIter_iternext(it)
    IN IF res.kind = "node" THEN Drain(res.it, Append(out, res.node))
       ELSE [kind |-> res.kind, nodes |-> out]

\* a full iteration over the tree as it is, with no add or delete in between
FullIteration == Drain(newRadixIterObject, << >>)

\* C13: a full iteration yields the node of every stored prefix once and no
\* glue node, the IPv4 nodes before the IPv6 nodes, each node before the
\* nodes below it and a left subtree before the right one, and then ends
C13_IterationComplete ==
    LET res == FullIteration
        pos(n) == CHOOSE i \in 1 .. Len(res.nodes) : res.nodes[i] = n
    IN /\ res.kind = "stop"
       /\ Range(res.nodes) = RealNodes
       /\ NoRepeat(res.nodes)
       /\ \A n \in RealNodes \cap Subtree(heap, rt.head_ipv4) :
             \A m \in RealNodes \cap Subtree(heap, rt.head_ipv6) : pos(n) < pos(m)
       /\ \A n \in RealNodes :
             \A m \in (RealNodes \cap Subtree(heap, n)) \ {n} : pos(n) < pos(m)
       /\ \A n \in Reachable :
             \A a \in RealNodes \cap Subtree(heap, heap[n].l) :
                \A b \in RealNodes \cap Subtree(heap, heap[n].r) : pos(a) < pos(b)

\* the iteration passes a glue node with two stored children and goes on
\* into the IPv6 tree
C13_Witness ==
    /\ FullIteration.kind = "stop"
    /\ Len(FullIteration.nodes) = 3
    /\ \E n \in GlueNodes : heap[n].l \in RealNodes /\ heap[n].r \in RealNodes
    /\ rt.head_ipv6 # NULL

\* C14: delete of a prefix that is not stored raises KeyError and changes
\* neither a node, nor the heads, nor num_active_node, nor the stored
\* prefixes, nor the generation that the iterators compare
C14_DeleteNotFound ==
    [][(last'.op = "delete" /\ last'.err # "ValueError") =>
          /\ last'.err = "KeyError" <=> ~last'.had
          /\ last'.err = "KeyError" =>
                /\ heap' = heap
                /\ rt' = rt
                /\ added' = added
                /\ gen_id' = gen_id]_vars

\* a delete has just failed on a prefix at whose position a glue node sits
C14_Witness ==
    /\ last.op = "delete" /\ last.err = "KeyError"
    /\ LET P == args_to_prefix(Uninit, last.arg)
           n == SearchForeach(heap, RADIX_HEAD_BY_PREFIX(rt, P), P, FALSE)
       IN /\ n \in GlueNodes
          /\ heap[n].bit = P.bitlen
          /\ SameBits(heap[heap[n].l].prefix.add, P.add, P.bitlen)

\* C15: when an allocation of radix_lookup fails, the add fails and every
\* node, the heads and num_active_node are as before the call, so that no
\* node allocated by the call is left behind
C15_LookupFailureRestores ==
    [][(last'.op = "add" /\ last'.err = "MemoryError") =>
          heap' = heap /\ rt' = rt]_vars

\* C16: add, delete and the five searches, called with a prefix length out of
\* the range of the family, as text or as packed bytes, raise an error and
\* leave the trie alone
C16_InvalidLengthRejected ==
    [][(last'.op # "none" /\ OutOfRange(last'.arg)) =>
          /\ last'.err # "none"
          /\ heap' = heap
          /\ rt' = rt
          /\ gen_id' = gen_id]_vars

\* the walk that is cut when the callback first returns non-zero: the calls
\* of the full walk up to the first node of abortOn, and that call's value
CutAt(full, abortOn) ==
    LET hits == {i \in 1 .. Len(full.calls) : full.calls[i] \in abortOn}
        first == CHOOSE i \in hits : \A k \in hits : i <= k
    IN IF hits = {} THEN full
       ELSE [rc |-> Callback(full.calls[first], abortOn),
             calls |-> SubSeq(full.calls, 1, first)]

\* the sets of nodes on which the callback of a walk returns non-zero: one
\* stored node, or all of them
AbortSets == {{a} : a \in RealNodes} \cup {RealNodes}

\* C17: in search_covering, search_covered and search_intersect the walk
\* stops at the first callback that returns non-zero, calls back on no
\* further node (intersect does not start its covered phase), and returns
\* that value; when every callback returns 0 the walk returns 0
C17_CallbackAbort ==
    \A arg \in ValidQueryArgs :
        LET Q == args_to_prefix(Uninit, arg)
        IN \A junk \in JunkOf(Q) :
            LET up == radix_search_covering(Mem, Q, {}, junk)
                down(inclusive) == radix_search_covered(Mem, Q, {}, inclusive)
                both == radix_search_intersect(Mem, Q, {}, junk)
            IN /\ up.rc = 0 /\ both.rc = 0 /\ down(TRUE).rc = 0 /\ down(FALSE).rc = 0
               /\ \A abortOn \in AbortSets :
                     LET cut == radix_search_covering(Mem, Q, abortOn, junk)
                     IN /\ cut = CutAt(up, abortOn)
                        /\ \A inclusive \in BOOLEAN :
                              radix_search_covered(Mem, Q, abortOn, inclusive)
                                 = CutAt(down(inclusive), abortOn)
                        /\ radix_search_intersect(Mem, Q, abortOn, junk) = CutAt(both, abortOn)
                        /\ cut.rc # 0 => radix_search_intersect(Mem, Q, abortOn, junk) = cut

\* a callback stops the covering walk before the last covering prefix, and a
\* callback stops the covered walk before the last covered prefix
C17_Witness ==
    \E arg \in ValidQueryArgs : \E a \in RealNodes :
        LET Q == args_to_prefix(Uninit, arg)
            up == radix_search_covering(Mem, Q, {a}, FALSE)
        IN /\ up.rc = a
           /\ Len(up.calls) < Cardinality(Covering(Q))
           /\ \E b \in RealNodes :
                 LET dn == radix_search_covered(Mem, Q, {b}, FALSE)
                 IN dn.rc = b /\ Len(dn.calls) < Cardinality(Covered(Q))

\* C18: search_intersect(Q) with a callback that returns 0 calls back once
\* on each stored prefix that contains Q (Q's own node included) and on each
\* stored prefix strictly contained by Q, and on no other node
C18_Intersect ==
    \A arg \in ValidQueryArgs :
        LET Q == args_to_prefix(Uninit, arg)
        IN \A junk \in JunkOf(Q) :
            LET res == radix_search_intersect(Mem, Q, {}, junk)
            IN /\ Range(res.calls) = Covering(Q) \cup Covered(Q)
               /\ NoRepeat(res.calls)
               /\ res.rc = 0

\* Q is stored, lies under a stored prefix and has a stored prefix below it
C18_Witness ==
    \E n \in RealNodes :
        LET Q == heap[n].prefix
            res == radix_search_intersect(Mem, Q, {}, FALSE)
        IN /\ Covered(Q) # {}
           /\ Cardinality(Covering(Q)) >= 2
           /\ Len(res.calls) = Cardinality(Covering(Q)) + Cardinality(Covered(Q))

\* C19: the searches, nodes(), prefixes() and a write to a node's data dict
\* change no node, head, num_active_node or generation, and a next that
\* follows them on an unmodified tree returns what it would have returned
\* before them: a node or the end of the iteration, not an error
C19_ReadsKeepIterator ==
    /\ []((it_last.after \in ReadOps /\ it_last.mods = 0) => it_last.kind \in {"node", "stop"})
    /\ [][(last'.op \in ReadOps /\ last' # last) =>
             /\ heap' = heap
             /\ rt' = rt
             /\ gen_id' = gen_id
             /\ RadixIter_iternext(iter)' = RadixIter_iternext(iter)]_vars

\* after a covered search, next has yielded a node below the head
C19_Witness ==
    /\ it_last.after = "search_covered"
    /\ it_last.mods = 0
    /\ it_last.kind = "node"
    /\ heap[it_last.node].parent # NULL

\* C20: after a next has failed with the modification error, the next calls
\* on that iterator neither fail with that error again nor yield a node
C20_ErrorReportedOnce ==
    it_last.after_error => it_last.kind = "stop"

\* C21: every delete of a stored prefix decrements num_active_node and
\* increments the generation, whether the removed node has no child, one
\* child or two children
C21_RemovalDecrements ==
    [][(last'.op = "delete" /\ last'.err = "none") =>
          /\ rt'.num_active_node < rt.num_active_node
          /\ gen_id' = (gen_id + 1) % UIntMod]_vars

\* C22: search_covered passes a node to the callback before every node of
\* that node's subtree that it passes to the callback
C22_CoveredPreOrder ==
    \A arg \in ValidQueryArgs :
        LET calls == radix_search_covered(Mem, args_to_prefix(Uninit, arg), {}, TRUE).calls
        IN \A i, j \in 1 .. Len(calls) :
              (i # j /\ calls[j] \in Subtree(heap, calls[i])) => i < j

\* C23: the generation after every successful add or delete is greater than
\* the generation before it
C23_GenerationIncreases ==
    [][(last'.op \in {"add", "delete"} /\ last'.err = "none") => gen_id' > gen_id]_vars

\* the nodes whose prefix pointer is p
Holders(p) == {n \in NodeIds : heap[n].alloc /\ pmem.of[n] = p}

\* C24: the prefix of every reachable node is an allocated heap block with
\* ref_count >= 1; a block is freed once, when its last holder has released
\* it (no allocated block is without a holder, no block is freed that is
\* not allocated); the prefix_t on the caller's stack is never stored in a
\* node, never counted and never freed
C24_PrefixOwnership ==
    /\ \A n \in RealNodes :
          /\ pmem.of[n] \in NodeIds
          /\ pmem.obj[pmem.of[n]].alloc
          /\ pmem.obj[pmem.of[n]].ref_count >= 1
    /\ \A n \in GlueNodes : pmem.of[n] = NULL
    /\ \A p \in NodeIds :
          pmem.obj[p].alloc => pmem.obj[p].ref_count = Cardinality(Holders(p))
    /\ pmem.misuse = {}
    /\ pmem.obj[StackPrefix] = FreePrefix
    /\ Holders(StackPrefix) = {}

\* after adds, deletes and a search: two nodes hold their prefixes and a
\* glue node at the place of a prefix that is not stored holds none
C24_Witness ==
    /\ last.op = "search_exact"
    /\ Cardinality(RealNodes) >= 2
    /\ GlueNodes # {}
    /\ added # {}
    /\ \E n \in GlueNodes : Canon(args_to_prefix(Uninit, [form |-> "text", family |-> AF_INET,
                                addr |-> AddrOf(AF_INET, 0), masklen |-> WinLo(AF_INET)])) \notin added
                            /\ heap[n].bit = WinLo(AF_INET)

\* the nodes that the searches for Q return or pass to their callback
SearchNodes(Q, junk) ==
    ({radix_search_exact(Mem, Q), radix_search_best(Mem, Q, junk),
      radix_search_worst(Mem, Q, junk)} \ {NULL})
        \cup Range(radix_search_covering(Mem, Q, {}, junk).calls)
        \cup Range(radix_search_covered(Mem, Q, {}, TRUE).calls)
        \cup Range(radix_search_intersect(Mem, Q, {}, junk).calls)

\* the nodes of the tree of a family
FamilyNodes(h, r, family) == Subtree(h, RADIX_HEAD_BY_PREFIX(r, [family |-> family]))

\* the family that is not family
OtherFamily(family) == IF family = AF_INET THEN AF_INET6 ELSE AF_INET

\* C25: the prefixes under head_ipv4 are IPv4 and those under head_ipv6 are
\* IPv6, no node is under both heads, a search returns nodes of the family
\* of its prefix only, and an add or delete of a prefix of one family leaves
\* the head and every node of the other family as they were
C25_FamilySeparation ==
    /\ [](/\ \A family \in Families : \A n \in FamilyNodes(heap, rt, family) :
                IsReal(n) => heap[n].prefix.family = family
          /\ FamilyNodes(heap, rt, AF_INET) \cap FamilyNodes(heap, rt, AF_INET6) = {}
          /\ \A arg \in FamArgs :
                LET Q == args_to_prefix(Uninit, arg)
                IN \A junk \in JunkOf(Q) : \A n \in SearchNodes(Q, junk) :
                      /\ n \in FamilyNodes(heap, rt, arg.family)
                      /\ heap[n].prefix.family = arg.family)
    /\ [][last'.op \in {"add", "delete"} =>
            LET other == OtherFamily(last'.arg.family)
            IN /\ RADIX_HEAD_BY_PREFIX(rt', [family |-> other])
                    = RADIX_HEAD_BY_PREFIX(rt, [family |-> other])
               /\ \A n \in FamilyNodes(heap, rt, other) : heap'[n] = heap[n]
               /\ (last'.op = "add" /\ last'.ret # NULL) =>
                     heap'[last'.ret].prefix.family = last'.arg.family]_vars

\* 0.0.0.0/0 and ::/0 are the two heads, each with a node below it, and the
\* last call has added an IPv6 prefix
C25_Witness ==
    /\ rt.head_ipv4 # NULL /\ rt.head_ipv6 # NULL
    /\ IsReal(rt.head_ipv4) /\ heap[rt.head_ipv4].prefix.bitlen = 0
    /\ IsReal(rt.head_ipv6) /\ heap[rt.head_ipv6].prefix.bitlen = 0
    /\ Cardinality(FamilyNodes(heap, rt, AF_INET)) = 2
    /\ Cardinality(FamilyNodes(heap, rt, AF_INET6)) = 2
    /\ last.op = "add" /\ last.err = "none" /\ last.arg.family = AF_INET6

RECURSIVE Height(_, _)
\* the number of nodes on the longest path from n downwards
Height(h, n) == IF n = NULL THEN 0 ELSE 1 + Max(Height(h, h[n].l), Height(h, h[n].r))

RECURSIVE IterDepth(_, _)
\* the largest size of the stack of the iterator it in the rest of its walk
IterDepth(it, depth) ==
    IF it.rn = NULL
    THEN IF it.af = AF_INET6 THEN depth
         ELSE IterDepth([it EXCEPT !.sp = << >>, !.rn = rt.head_ipv6, !.af = AF_INET6], depth)
    ELSE IterDepth(IterAdvance(it), Max(depth, Len(IterAdvance(it).sp)))

RECURSIVE CoveredDepth(_, _, _, _)
\* the largest size of the stack of radix_search_covered in the rest of its
\* while loop, with a callback that returns 0
CoveredDepth(h, prefix, stack, depth) ==
    IF stack = << >> THEN depth
    ELSE
    LET pos == Len(stack)
        pst == stack[pos]
    IN
    IF pst.state # RADIX_STATE_SELF THEN
        LET node == IF pst.state = RADIX_STATE_LEFT THEN h[pst.node].l ELSE h[pst.node].r
            st1 == [stack EXCEPT ![pos].state =
                        IF pst.state = RADIX_STATE_LEFT THEN RADIX_STATE_RIGHT ELSE RADIX_STATE_SELF]
        IN IF node = NULL THEN CoveredDepth(h, prefix, st1, depth)
           ELSE IF ~pst.checked /\ h[node].prefix # NoPrefix /\ ~COMP_NODE_PREFIX(h, node, prefix)
           THEN CoveredDepth(h, prefix, st1, depth)
           ELSE CoveredDepth(h, prefix,
                    Append(st1, [node |-> node, state |-> RADIX_STATE_LEFT,
                                 checked |-> pst.checked \/ h[node].prefix # NoPrefix]),
                    Max(depth, pos + 1))
    ELSE CoveredDepth(h, prefix, SubSeq(stack, 1, pos - 1), depth)

\* the largest size of the stack of radix_search_covered(Q)
CoveredStackDepth(Q) ==
    LET d == CoveredDescend(heap, RADIX_HEAD_BY_PREFIX(rt, Q), Q, NULL, NULL)
        node == IF d.node = NULL THEN d.prev_node ELSE d.node
        prefixed_node == IF d.node # NULL /\ heap[d.node].prefix # NoPrefix
                         THEN d.node ELSE d.prefixed_node
    IN IF node = NULL THEN 0
       ELSE IF prefixed_node # NULL /\ ~COMP_NODE_PREFIX(heap, prefixed_node, Q) THEN 0
       ELSE CoveredDepth(heap, Q,
                <<[node |-> node, state |-> RADIX_STATE_LEFT,
                   checked |-> node = prefixed_node /\ heap[node].bit >= Q.bitlen]>>, 1)

\* the height of the tree of a family, and of the higher of the two trees
HeightOf(family) == Height(heap, RADIX_HEAD_BY_PREFIX(rt, [family |-> family]))

MaxHeight == Max(HeightOf(AF_INET), HeightOf(AF_INET6))

\* C26: the bits of the nodes lie in 0 .. RADIX_MAXBITS and increase from a
\* node to its children, so that a path has at most RADIX_MAXBITS + 1
\* nodes; the stacks of search_best/search_worst and of search_covered hold
\* at most as many entries as the longest path of the tree has nodes, and
\* those of the iterator and of the clearing walk fewer
C26_StackBound ==
    /\ \A n \in Reachable :
          /\ heap[n].bit \in 0 .. RADIX_MAXBITS
          /\ \A c \in Children(n) : heap[c].bit > heap[n].bit
    /\ MaxHeight <= RADIX_MAXBITS + 1
    /\ IterDepth(newRadixIterObject, 0) <= Max(MaxHeight - 1, 0)
    /\ Clear_Radix(Mem, pmem, FALSE).depth <= Max(MaxHeight - 1, 0)
    /\ \A arg \in ValidQueryArgs :
          LET Q == args_to_prefix(Uninit, arg)
          IN /\ CoveredStackDepth(Q) <= HeightOf(Q.family)
             /\ \A junk \in JunkOf(Q) :
                   Len(InclusiveWalk(heap, RADIX_HEAD_BY_PREFIX(rt, Q), Q, TRUE, junk, << >>))
                       <= HeightOf(Q.family)

\* a tree of height 3 whose lowest inner node has two children: a search
\* fills its stack to the height, the iterator and the clearing walk stack a
\* right child, and search_covered stacks three entries
C26_Witness ==
    /\ HeightOf(AF_INET) = 3
    /\ IterDepth(newRadixIterObject, 0) = 1
    /\ Clear_Radix(Mem, pmem, FALSE).depth = 1
    /\ \E arg \in ValidQueryArgs :
          LET Q == args_to_prefix(Uninit, arg)
          IN /\ Len(InclusiveWalk(heap, rt.head_ipv4, Q, TRUE, FALSE, << >>)) = 3
             /\ CoveredStackDepth([Q EXCEPT !.bitlen = 0]) = 3

\* the places of the events of kind what on node n in a sequence of events
EventsAt(events, what, n) ==
    {i \in 1 .. Len(events) : events[i].what = what /\ events[i].node = n}

\* clearing the tree with a finalizer did what it has to: every reachable
\* node freed once and nothing else freed, the prefix of every stored node
\* released once and every prefix_t block freed by it, func called once on
\* every node with a prefix and data and before the free of that node,
\* num_active_node at 0
Cleared(D) ==
    /\ \A n \in NodeIds :
          /\ Cardinality(EventsAt(D.events, "PyMem_Free", n)) = (IF n \in Reachable THEN 1 ELSE 0)
          /\ EventsAt(D.events, "free of a freed node", n) = {}
          /\ Cardinality(EventsAt(D.events, "Deref_Prefix", n)) = (IF n \in RealNodes THEN 1 ELSE 0)
          /\ Cardinality(EventsAt(D.events, "func", n))
                = (IF n \in RealNodes /\ heap[n].data # NULL THEN 1 ELSE 0)
          /\ \A i \in EventsAt(D.events, "func", n), j \in EventsAt(D.events, "PyMem_Free", n) : i < j
          /\ ~D.M.heap[n].alloc
    /\ \A p \in PrefixIds : ~D.P.obj[p].alloc
    /\ D.P.misuse = {}
    /\ D.M.rt.num_active_node = 0

\* C27: Destroy/clear of a tree reached by adds and deletes ends, frees
\* every reachable node of both families once, releases each stored prefix
\* once, calls the supplied finalizer once for each node that has a prefix
\* and data, before that node is freed, and brings num_active_node to 0;
\* without a finalizer (Radix_dealloc) the frees are the same and nothing
\* is called
C27_ClearFreesAll ==
    /\ Cleared(Clear_Radix(Mem, pmem, TRUE))
    /\ LET D == Clear_Radix(Mem, pmem, FALSE)
       IN /\ D.M = Clear_Radix(Mem, pmem, TRUE).M
          /\ D.P = Clear_Radix(Mem, pmem, TRUE).P
          /\ \A i \in 1 .. Len(D.events) : D.events[i].what # "func"

\* a tree with nodes of both families, a glue node and a node whose right
\* child waits on the stack is cleared: the finalizer is called on three
\* nodes
C27_Witness ==
    /\ rt.head_ipv4 # NULL /\ rt.head_ipv6 # NULL
    /\ GlueNodes # {}
    /\ rt.num_active_node = MaxNodes
    /\ LET D == Clear_Radix(Mem, pmem, TRUE)
       IN /\ D.depth = 1
          /\ Cardinality({i \in 1 .. Len(D.events) : D.events[i].what = "func"}) = 3
          /\ Cardinality({i \in 1 .. Len(D.events) : D.events[i].what = "PyMem_Free"}) = MaxNodes

\* the node that a successful Radix.delete(arg) demotes: the stored node
\* of arg's prefix, when it has two children
Demoted(arg) ==
    {n \in RealNodes : /\ SamePrefix(heap[n].prefix, args_to_prefix(Uninit, arg))
                       /\ heap[n].l # NULL /\ heap[n].r # NULL}

\* no search and no iteration reports a glue node, and search_exact finds no
\* prefix that is not stored
GlueUnreported ==
    /\ \A n \in GlueNodes :
          /\ n \notin Range(FullIteration.nodes)
          /\ \A arg \in ValidQueryArgs :
                LET Q == args_to_prefix(Uninit, arg)
                IN \A junk \in JunkOf(Q) : n \notin SearchNodes(Q, junk)
    /\ \A arg \in CallArgs :
          Canon(args_to_prefix(Uninit, arg)) \notin added
              => radix_search_exact(Mem, args_to_prefix(Uninit, arg)) = NULL

\* C28: deleting a stored prefix whose node has two children makes the node
\* a glue node: its prefix is released (the prefix_t is freed) and set to
\* none, its data is cleared, its bit, parent, l and r are as before, no
\* node is freed, every other node and both heads are as before; the prefix
\* is no longer stored, and in no state does a search or an iteration report
\* a glue node or find a prefix that is not stored
C28_DemoteToGlue ==
    /\ []GlueUnreported
    /\ [][(last'.op = "delete" /\ last'.err = "none") =>
            \A n \in Demoted(last'.arg) :
                /\ heap'[n] = [heap[n] EXCEPT !.prefix = NoPrefix, !.data = NULL]
                /\ heap[n].data # NULL
                /\ \A m \in NodeIds \ {n} : heap'[m] = heap[m]
                /\ rt'.head_ipv4 = rt.head_ipv4 /\ rt'.head_ipv6 = rt.head_ipv6
                /\ pmem.of[n] # NULL /\ pmem.obj[pmem.of[n]].alloc
                /\ ~pmem'.obj[pmem.of[n]].alloc
                /\ pmem'.of = [pmem.of EXCEPT ![n] = NULL]
                /\ \A p \in PrefixIds \ {pmem.of[n]} : pmem'.obj[p] = pmem.obj[p]
                /\ pmem'.misuse = {}
                /\ added' = added \ {Canon(heap[n].prefix)}
                /\ Canon(heap[n].prefix) \in added]_vars

\* the last call deleted the prefix of a node with two children: the node is
\* now a glue node between the two stored prefixes below it
C28_Witness ==
    /\ last.op = "delete" /\ last.err = "none" /\ last.had
    /\ \E n \in GlueNodes :
          /\ heap[n].bit = args_to_prefix(Uninit, last.arg).bitlen
          /\ heap[n].l # NULL /\ heap[n].r # NULL
          /\ IsReal(heap[n].l) /\ IsReal(heap[n].r)
          /\ \A c \in Children(n) : Contains(args_to_prefix(Uninit, last.arg), heap[c].prefix)
          /\ pmem.of[n] = NULL
    /\ Cardinality(RealNodes) = 2
    /\ rt.num_active_node = 3

\* the stored nodes whose prefix contains Q and is shorter than Q
CoveringBelow(Q) == {n \in Covering(Q) : heap[n].prefix.bitlen < Q.bitlen}

\* C29: with inclusive = 0, search_best2 and search_worst2 never return a
\* node whose prefix has the query's length: they return the node of the
\* longest, resp. the shortest, stored prefix that contains Q and is
\* strictly shorter than Q, and NULL when there is none, also when Q itself
\* is stored
C29_ExclusiveBestWorst ==
    \A arg \in ValidQueryArgs :
        LET Q == args_to_prefix(Uninit, arg)
        IN \A junk \in JunkOf(Q) :
              LET best == radix_search_best2(Mem, Q, FALSE, junk)
                  worst == radix_search_worst2(Mem, Q, FALSE, junk)
              IN /\ best # NULL => heap[best].prefix.bitlen # Q.bitlen
                 /\ worst # NULL => heap[worst].prefix.bitlen # Q.bitlen
                 /\ IF CoveringBelow(Q) = {} THEN best = NULL /\ worst = NULL
                    ELSE /\ best \in CoveringBelow(Q)
                         /\ worst \in CoveringBelow(Q)
                         /\ \A n \in CoveringBelow(Q) :
                               /\ heap[n].prefix.bitlen <= heap[best].prefix.bitlen
                               /\ heap[n].prefix.bitlen >= heap[worst].prefix.bitlen

\* a stored prefix with two shorter stored prefixes above it, for which the
\* two searches with inclusive = 0 return different nodes, none of them its
\* own, and a stored prefix with nothing above it, for which they return
\* NULL
C29_Witness ==
    /\ \E arg \in ValidQueryArgs :
          LET Q == args_to_prefix(Uninit, arg)
          IN /\ radix_search_exact(Mem, Q) # NULL
             /\ radix_search_best2(Mem, Q, TRUE, FALSE) = radix_search_exact(Mem, Q)
             /\ radix_search_best2(Mem, Q, FALSE, FALSE) # NULL
             /\ radix_search_worst2(Mem, Q, FALSE, FALSE) # NULL
             /\ radix_search_best2(Mem, Q, FALSE, FALSE) # radix_search_worst2(Mem, Q, FALSE, FALSE)
    /\ \E arg \in ValidQueryArgs :
          LET Q == args_to_prefix(Uninit, arg)
          IN /\ radix_search_exact(Mem, Q) # NULL
             /\ radix_search_best2(Mem, Q, FALSE, FALSE) = NULL
             /\ radix_search_worst2(Mem, Q, FALSE, FALSE) = NULL

\* the nodes on the way from node n up to the head, n included
UpFrom(n) == {m \in Reachable : n \in Subtree(heap, m)}

\* C30: search_covering calls back from the most specific to the least
\* specific: the first callback is on the node of the longest stored prefix
\* that contains Q, each later one on a node above the one before it with a
\* strictly shorter prefix, and the nodes called back are the stored nodes
\* on the way up from the first: the glue nodes on that way get no callback
C30_CoveringOrder ==
    \A arg \in ValidQueryArgs :
        LET Q == args_to_prefix(Uninit, arg)
        IN \A junk \in JunkOf(Q) :
              LET calls == radix_search_covering(Mem, Q, {}, junk).calls
              IN /\ (calls = << >>) <=> (Covering(Q) = {})
                 /\ calls # << >> =>
                       /\ calls[1] \in Covering(Q)
                       /\ \A n \in Covering(Q) : heap[n].prefix.bitlen <= heap[calls[1]].prefix.bitlen
                       /\ Range(calls) = UpFrom(calls[1]) \cap RealNodes
                 /\ \A i \in 1 .. Len(calls) - 1 :
                       /\ heap[calls[i + 1]].prefix.bitlen < heap[calls[i]].prefix.bitlen
                       /\ calls[i + 1] \in UpFrom(calls[i]) \ {calls[i]}

\* a query whose best match has a glue node as parent and a stored node above
\* that: two callbacks, the glue node between them passed over
C30_Witness ==
    \E arg \in ValidQueryArgs :
        LET calls == radix_search_covering(Mem, args_to_prefix(Uninit, arg), {}, FALSE).calls
        IN /\ Len(calls) = 2
           /\ heap[calls[1]].parent \in GlueNodes
           /\ heap[heap[calls[1]].parent].parent = calls[2]
           /\ calls[1] = radix_search_exact(Mem, args_to_prefix(Uninit, arg))

\* the prefixes that can be added: they parse, are not stored, and memory
\* suffices for their nodes
NewPrefixes(M) ==
    {prefix \in {args_to_prefix(NoPrefix, arg) : arg \in AddArgs} \ {NoPrefix} :
        /\ radix_search_exact(M, prefix) = NULL
        /\ radix_lookup(M, prefix, {}).node # NULL}

\* which case of radix_lookup the insertion of prefix into M is: the tree
\* was empty, a glue node got the prefix, a leaf was hung below a node, a
\* node was put above a node, or a glue node was made with the leaf
InsertionCase(M, prefix) ==
    LET res == radix_lookup(M, prefix, {})
    IN IF RADIX_HEAD_BY_PREFIX(M.rt, prefix) = NULL THEN "first"
       ELSE IF M.heap[res.node].alloc THEN "glue gets the prefix"
       ELSE IF res.M.rt.num_active_node = M.rt.num_active_node + 2 THEN "fork with glue"
       ELSE IF res.M.heap[res.node].l = NULL /\ res.M.heap[res.node].r = NULL THEN "leaf below"
       ELSE "node above"

\* adding prefix to M and deleting it again gives M
RoundTrip(M, prefix) ==
    /\ radix_search_exact(AddedMem(M, prefix), prefix) = radix_lookup(M, prefix, {}).node
    /\ DeletedMem(AddedMem(M, prefix), prefix) = M

\* C31: on every tree reached by adds and deletes and for every prefix that
\* is not stored, add followed by delete of the prefix gives back the tree:
\* the same nodes with the same bit, prefix, parent, l, r and data, the
\* same heads and the same num_active_node, in every case of the insertion
C31_AddDeleteRoundTrip ==
    ~fault => \A prefix \in NewPrefixes(Mem) : RoundTrip(Mem, prefix)

\* a tree of two nodes in which a prefix can be added as a leaf below a
\* node, another as a node above a node and a third with a glue node; and
\* after that third one has been added, the glue node can get a prefix
C31_Witness ==
    /\ rt.num_active_node = 2
    /\ \A c \in {"leaf below", "node above", "fork with glue"} :
          \E prefix \in NewPrefixes(Mem) :
              InsertionCase(Mem, prefix) = c /\ RoundTrip(Mem, prefix)
    /\ \E prefix \in NewPrefixes(Mem) :
          /\ InsertionCase(Mem, prefix) = "fork with glue"
          /\ \E other \in NewPrefixes(AddedMem(Mem, prefix)) :
                /\ InsertionCase(AddedMem(Mem, prefix), other) = "glue gets the prefix"
                /\ RoundTrip(AddedMem(Mem, prefix), other)

\* the memory of a new Radix object
EmptyMem == [heap |-> [n \in NodeIds |-> FreeCell], rt |-> New_Radix]

RECURSIVE BuiltByAdds(_)
\* the memory after the prefixes of S have been added to a new Radix
\* object, one after the other and with no delete
BuiltByAdds(S) ==
    IF S = {} THEN EmptyMem
    ELSE LET prefix == CHOOSE prefix \in S : TRUE
         IN AddedMem(BuiltByAdds(S \ {prefix}), prefix)

\* every stored prefix is sanitised: it has no bit set beyond its length
Sanitised == \A n \in RealNodes : heap[n].prefix = Canon(heap[n].prefix)

\* C32: the trie after any sequence of adds and deletes of sanitised
\* prefixes is the trie that adds alone build from the set of the stored
\* prefixes: the same nodes with bit, prefix or none, parent, l, r, the same
\* heads and num_active_node, whatever the order of the calls
C32_OrderIndependence ==
    (~fault /\ Sanitised) => Mem = BuiltByAdds(added)

\* the last call deleted a stored prefix, and what is left are three stored
\* prefixes and a glue node
C32_Witness ==
    /\ last.op = "delete" /\ last.err = "none"
    /\ Cardinality(added) = 3
    /\ Cardinality(GlueNodes) = 1
    /\ Sanitised
    /\ Mem = BuiltByAdds(added)

\* the stored nodes at and below node n
RealBelow(n) == {m \in Subtree(heap, n) : IsReal(m)}

\* C33: for every reachable node N, the stored nodes at and below N agree
\* on their first N.bit address bits, those below N's left child have
\* address bit N.bit 0 and those below its right child have it 1, and when
\* N is stored its prefix contains the prefix of every stored node below it
C33_SubtreeContainment ==
    ~fault =>
    \A N \in Reachable :
        /\ \A a, b \in RealBelow(N) : SameBits(heap[a].prefix.add, heap[b].prefix.add, heap[N].bit)
        /\ \A m \in RealBelow(heap[N].l) : ~BIT_TEST_SEARCH_BIT(heap[m].prefix.add, heap[N].bit)
        /\ \A m \in RealBelow(heap[N].r) : BIT_TEST_SEARCH_BIT(heap[m].prefix.add, heap[N].bit)
        /\ IsReal(N) => \A m \in RealBelow(N) : Contains(heap[N].prefix, heap[m].prefix)

\* the last call has added a prefix whose node was put above a glue node
\* that has a stored prefix on either side
C33_Witness ==
    /\ last.op = "add" /\ last.err = "none" /\ ~last.had
    /\ last.ret # NULL
    /\ \E g \in GlueNodes :
          /\ g \in {heap[last.ret].l, heap[last.ret].r}
          /\ RealBelow(heap[g].l) # {} /\ RealBelow(heap[g].r) # {}

\* the prefixes that Radix.add is called with
AddPrefixSet == {args_to_prefix(NoPrefix, arg) : arg \in AddArgs} \ {NoPrefix}

\* the node at which the descent of radix_lookup(prefix) stops, in a tree of
\* prefix's family that is not empty
Landing(prefix) ==
    LookupDescend(heap, RADIX_HEAD_BY_PREFIX(rt, prefix), prefix.add, prefix.bitlen,
                  RADIX_MAXBITS_BY_PREFIX(prefix))

\* the stored leaves whose parent is a glue node
LeavesUnderGlue ==
    {n \in RealNodes : /\ heap[n].l = NULL /\ heap[n].r = NULL
                       /\ heap[n].parent # NULL /\ ~IsReal(heap[n].parent)}

\* C34: on every tree reached by successful adds and deletes no call has
\* read through a NULL pointer: the node at which the descent of
\* radix_lookup stops has a prefix, for every prefix looked up, and a leaf
\* whose parent is a glue node has a sibling, so that radix_remove of the
\* leaf has a child to put in the glue node's place
C34_NoNullDereference ==
    /\ ~fault
    /\ \A prefix \in AddPrefixSet :
          RADIX_HEAD_BY_PREFIX(rt, prefix) # NULL =>
              /\ heap[Landing(prefix)].prefix # NoPrefix
              /\ ~radix_lookup(Mem, prefix, {}).fault
    /\ \A n \in LeavesUnderGlue :
          /\ Children(heap[n].parent) \ {n} # {}
          /\ ~radix_remove(Mem, n).fault
    /\ \A n \in RealNodes : ~radix_remove(Mem, n).fault

\* a glue node with a stored leaf below it, and a prefix to add that is no
\* longer than the glue node's bit: the descent goes through the glue node
\* because it has no prefix and stops below it
C34_Witness ==
    \E n \in LeavesUnderGlue :
        \E prefix \in AddPrefixSet :
            /\ prefix.family = heap[n].prefix.family
            /\ prefix.bitlen <= heap[heap[n].parent].bit
            /\ Landing(prefix) \in Subtree(heap, heap[n].parent) \ {heap[n].parent}
            /\ radix_search_exact(Mem, prefix) = NULL

\* the RadixNodeObject that the data pointer of node n points to
DataOf(n) == IF heap[n].data = NULL THEN NULL ELSE nodeobjs.of[n]

\* every stored node has an object whose rn is the node, and every object
\* whose rn is not NULL points to an allocated, reachable, stored node whose
\* data is the object
NodesBound ==
    /\ \A N \in RealNodes :
          /\ DataOf(N) # NULL
          /\ nodeobjs.obj[DataOf(N)].alloc
          /\ nodeobjs.obj[DataOf(N)].rn = N
    /\ \A o \in ObjIds :
          (nodeobjs.obj[o].alloc /\ nodeobjs.obj[o].rn # NULL) =>
              /\ heap[nodeobjs.obj[o].rn].alloc
              /\ nodeobjs.obj[o].rn \in RealNodes
              /\ DataOf(nodeobjs.obj[o].rn) = o

\* C35: after any sequence of successful adds and deletes every stored node
\* has an object whose rn is the node, and every RadixNode object whose rn
\* is not NULL points to a live stored node whose data is that object; a
\* delete leaves the object of the deleted node, which the caller may hold,
\* with rn NULL; an add of a prefix that is not stored returns an object
\* that did not exist before, and an add of a stored prefix returns the
\* object the node has
C35_NodeObjectBinding ==
    /\ []NodesBound
    /\ [][/\ (last'.op = "delete" /\ last'.err = "none") =>
                \A n \in {radix_search_exact(Mem, args_to_prefix(Uninit, last'.arg))} :
                    /\ nodeobjs'.obj[DataOf(n)].alloc
                    /\ nodeobjs'.obj[DataOf(n)].rn = NULL
                    /\ \A o \in ObjIds \ {DataOf(n)} :
                          nodeobjs.obj[o].rn # NULL => nodeobjs'.obj[o] = nodeobjs.obj[o]
          /\ (last'.op = "add" /\ last'.err = "none") =>
                /\ nodeobjs'.obj[nodeobjs'.of[last'.ret]].rn = last'.ret
                /\ IF radix_search_exact(Mem, args_to_prefix(Uninit, last'.arg)) = NULL
                   THEN ~nodeobjs.obj[nodeobjs'.of[last'.ret]].alloc
                   ELSE nodeobjs'.of[last'.ret] = DataOf(last'.ret)
                /\ \A o \in ObjIds \ {nodeobjs'.of[last'.ret]} : nodeobjs'.obj[o] = nodeobjs.obj[o]]_vars

\* the last call has added again the prefix that the call before last had
\* deleted from a node with two children: the node has a new object, and
\* the object it had is still there, with rn NULL
C35_Witness ==
    /\ last.op = "add" /\ last.err = "none" /\ ~last.had
    /\ heap[last.ret].l # NULL /\ heap[last.ret].r # NULL
    /\ DataOf(last.ret) # NULL
    /\ nodeobjs.obj[Twin(DataOf(last.ret))].alloc
    /\ nodeobjs.obj[Twin(DataOf(last.ret))].rn = NULL
    /\ Cardinality(RealNodes) = 3

\* C36: in every interleaving of next with adds and deletes, whenever the
\* iterator would pass the generation check of next, its node pointer and
\* every pointer on its stack point to nodes that are allocated and
\* reachable in the tree, and no next has read a freed node
C36_IteratorReadsLiveNodes ==
    /\ it_last.kind # "fault"
    /\ (iter.live /\ iter.gen_id = gen_id) =>
          \A n \in ({iter.rn} \cup Range(iter.sp)) \ {NULL} :
              heap[n].alloc /\ n \in Reachable

\* the RadixNode objects that exist: those of the stored nodes and the one
\* of a deleted node that the caller still holds
LiveObjects == {o \in ObjIds : nodeobjs.obj[o].alloc}

\* the object that a search returning node hands out, None for no node
ObjectAt(node) == IF node = NULL THEN NULL ELSE DataOf(node)

\* C37: RadixNode.parent of the object of a stored node N is the object of
\* the node of the longest stored prefix that contains N's prefix and is
\* shorter, which is the node that search_best2 with inclusive = 0 returns
\* for N's prefix and the nearest node above N with data; it is None when
\* no stored prefix is such, and None for the object of a deleted node
C37_ParentIsBestAbove ==
    \A o \in LiveObjects :
        IF nodeobjs.obj[o].rn = NULL THEN Radix_parent(o) = NULL
        ELSE LET N == nodeobjs.obj[o].rn
                 Q == heap[N].prefix
             IN /\ Radix_parent(o) # o
                /\ \A junk \in JunkOf(Q) :
                      Radix_parent(o) = ObjectAt(radix_search_best2(Mem, Q, FALSE, junk))
                /\ IF CoveringBelow(Q) = {} THEN Radix_parent(o) = NULL
                   ELSE /\ Radix_parent(o) \in LiveObjects
                        /\ nodeobjs.obj[Radix_parent(o)].rn \in CoveringBelow(Q)
                        /\ \A m \in CoveringBelow(Q) :
                              heap[m].prefix.bitlen
                                  <= heap[nodeobjs.obj[Radix_parent(o)].rn].prefix.bitlen

\* the last call deleted the prefix of a node with two children: the
\* parent of the object of the deleted node is None, the parent of a node
\* below the glue node is the object of the head above the glue node, and
\* the parent of the head is None
C37_Witness ==
    /\ last.op = "delete" /\ last.err = "none"
    /\ \E o \in LiveObjects : nodeobjs.obj[o].rn = NULL /\ Radix_parent(o) = NULL
    /\ \E o \in LiveObjects :
          /\ nodeobjs.obj[o].rn # NULL
          /\ heap[nodeobjs.obj[o].rn].parent \in GlueNodes
          /\ Radix_parent(o) # NULL
          /\ nodeobjs.obj[Radix_parent(o)].rn = rt.head_ipv4
          /\ Radix_parent(Radix_parent(o)) = NULL

\* the bits below n in which the addresses a and b differ
DifferingBelow(a, b, n) ==
    {k \in 0 .. n - 1 : BIT_TEST_SEARCH_BIT(a, k) # BIT_TEST_SEARCH_BIT(b, k)}

\* the number of bits of the addresses a
BitsOf(a) == Len(a) * ByteBits

\* C38: the differ bit that radix_lookup computes for a query address and
\* the landing node's address is the smallest bit index below check_bit at
\* which the two addresses differ, and check_bit when they agree on their
\* first check_bit bits, for every check_bit from 0 to the family's number
\* of bits; inverting any bit of the query address at an index of check_bit
\* or more does not change it
C38_DifferBitIsFirstDifference ==
    last.op = "differ_bit" =>
        LET addr == last.arg.addr
            test_addr == last.arg.test_addr
            check_bit == last.arg.check_bit
        IN /\ last.ret \in 0 .. check_bit
           /\ IF DifferingBelow(addr, test_addr, check_bit) = {}
              THEN last.ret = check_bit
              ELSE /\ last.ret \in DifferingBelow(addr, test_addr, check_bit)
                   /\ \A k \in DifferingBelow(addr, test_addr, check_bit) : last.ret <= k
           /\ \A k \in check_bit .. BitsOf(addr) - 1 :
                 /\ DifferBit(FlipBit(addr, k), test_addr, check_bit) = last.ret
                 /\ DifferBit(addr, FlipBit(test_addr, k), check_bit) = last.ret

\* the differ bit was computed for two addresses that agree on their first
\* check_bit bits and differ in a later bit of the byte that holds bit
\* check_bit - 1, and check_bit is no multiple of 8
C38_Witness ==
    /\ last.op = "differ_bit"
    /\ last.arg.check_bit % ByteBits # 0
    /\ DifferingBelow(last.arg.addr, last.arg.test_addr, last.arg.check_bit) = {}
    /\ DifferingBelow(last.arg.addr, last.arg.test_addr,
                      ((last.arg.check_bit \div ByteBits) + 1) * ByteBits) # {}
    /\ last.ret = last.arg.check_bit

====
